---- MODULE Spec2Model ----
(***************************************************************************)
(* markdown_forge: the Markdown normalization tools under src/tools.       *)
(*                                                                         *)
(* A text is a sequence of characters, a character a one-element string    *)
(* ("a", "#", "\n"); a line list is a sequence of texts.  Every pass of a  *)
(* tool is an operator on texts or line lists that computes what the       *)
(* Python code computes; a tool run (process_file) is one action on the    *)
(* file it is pointed at.                                                  *)
(***************************************************************************)
EXTENDS Naturals, Integers, Sequences, FiniteSets, TLC

(***************************************************************************)
(* Characters and the str methods the tools use.                           *)
(***************************************************************************)
NL == "\n"
TAB == "\t"
SP == " "
\* U+00A0, U+2014 and the backquote (which a TLA+ string cannot hold), each
\* one character of the program's text.
NBSP == "nbsp"
EMDASH == "emdash"
BQ == "backquote"
ENDASH == "endash"
BULLET == "bullet"

Lower == {"a", "b", "c", "d", "e", "f", "g", "h", "i", "j", "k", "l", "m",
          "n", "o", "p", "q", "r", "s", "t", "u", "v", "w", "x", "y", "z"}
Upper == {"A", "B", "C", "D", "E", "F", "G", "H", "I", "J", "K", "L", "M",
          "N", "O", "P", "Q", "R", "S", "T", "U", "V", "W", "X", "Y", "Z"}
Digit == {"0", "1", "2", "3", "4", "5", "6", "7", "8", "9"}

LowerOf == [c \in Upper |->
    CASE c = "A" -> "a" [] c = "B" -> "b" [] c = "C" -> "c" [] c = "D" -> "d"
      [] c = "E" -> "e" [] c = "F" -> "f" [] c = "G" -> "g" [] c = "H" -> "h"
      [] c = "I" -> "i" [] c = "J" -> "j" [] c = "K" -> "k" [] c = "L" -> "l"
      [] c = "M" -> "m" [] c = "N" -> "n" [] c = "O" -> "o" [] c = "P" -> "p"
      [] c = "Q" -> "q" [] c = "R" -> "r" [] c = "S" -> "s" [] c = "T" -> "t"
      [] c = "U" -> "u" [] c = "V" -> "v" [] c = "W" -> "w" [] c = "X" -> "x"
      [] c = "Y" -> "y" [] c = "Z" -> "z"]

\* str.isspace() and regex \s on the characters of the model (U+00A0 is
\* white space to both).
IsSpace(c) == c \in {SP, TAB, NL, NBSP}
IsDigit(c) == c \in Digit
IsAlpha(c) == c \in Lower \cup Upper
IsLowerCh(c) == c \in Lower
\* regex \w
IsWord(c) == c \in Lower \cup Upper \cup Digit \cup {"_"}
ToLowerCh(c) == IF c \in Upper THEN LowerOf[c] ELSE c

\* str.lower()
ToLower(s) == [i \in 1..Len(s) |-> ToLowerCh(s[i])]

StartsWith(s, p) == Len(s) >= Len(p) /\ SubSeq(s, 1, Len(p)) = p
EndsWith(s, p) == Len(s) >= Len(p) /\ SubSeq(s, Len(s) - Len(p) + 1, Len(s)) = p

\* The number of leading (trailing) characters of s that satisfy Drop.
LeadCount(s, Drop(_)) ==
    IF \A i \in 1..Len(s) : Drop(s[i]) THEN Len(s)
    ELSE (CHOOSE i \in 1..Len(s) : ~Drop(s[i]) /\ \A j \in 1..(i - 1) : Drop(s[j])) - 1
TrailCount(s, Drop(_)) ==
    IF \A i \in 1..Len(s) : Drop(s[i]) THEN Len(s)
    ELSE Len(s) - (CHOOSE i \in 1..Len(s) : ~Drop(s[i]) /\ \A j \in (i + 1)..Len(s) : Drop(s[j]))

IsBlankCh(c) == c = SP
\* str.lstrip(), str.rstrip(), str.strip(), str.lstrip(" ")
LStrip(s) == SubSeq(s, LeadCount(s, IsSpace) + 1, Len(s))
RStrip(s) == SubSeq(s, 1, Len(s) - TrailCount(s, IsSpace))
Strip(s) == LStrip(RStrip(s))
LStripSpaces(s) == SubSeq(s, LeadCount(s, IsBlankCh) + 1, Len(s))

\* TRUE, and evaluating it computes x.
Computed(x) == x = x

\* F of the value v.  Bind(v, LAMBDA x : e) is e with x standing for v, as
\* after the assignment x = v of the program; Then(v, LAMBDA x : e) is the
\* same and computes v first, as the program does for a statement.
Bind(v, F(_)) == F(v)
Then(v, F(_)) == CASE Computed(v) -> F(v)

\* The loop: each round starts with the accumulator of the rounds before
\* it computed.
RECURSIVE FoldLeft(_, _, _)
FoldLeft(Op(_, _), acc, s) ==
    IF s = <<>> THEN acc
    ELSE CASE Computed(acc) -> FoldLeft(Op, Op(acc, Head(s)), Tail(s))

\* str.splitlines(): the line breaks of the model's texts are "\n" only.
SplitLines(t) ==
    LET breaks == {i \in 1..Len(t) : t[i] = NL}
        n == Cardinality(breaks)
        \* the k-th line break
        at == [k \in 1..n |-> CHOOSE i \in breaks : Cardinality({j \in breaks : j < i}) = k - 1]
        count == IF t # <<>> /\ t[Len(t)] # NL THEN n + 1 ELSE n
    IN [k \in 1..count |->
            SubSeq(t, IF k = 1 THEN 1 ELSE at[k - 1] + 1, IF k <= n THEN at[k] - 1 ELSE Len(t))]

\* "\n".join(lines)
RECURSIVE JoinLines(_)
JoinLines(ls) ==
    IF ls = <<>> THEN <<>>
    ELSE IF Len(ls) = 1 THEN ls[1]
    ELSE ls[1] \o <<NL>> \o JoinLines(Tail(ls))

\* str.replace(old, new) for a single character old.
ReplaceCh(t, old, new) == [i \in 1..Len(t) |-> IF t[i] = old THEN new ELSE t[i]]

\* A line that opens or closes a fenced code block, given the line with its
\* leading white space removed.
BACKTICKS == <<BQ, BQ, BQ>>
TILDES == <<"~", "~", "~">>
IsFence(stripped) == StartsWith(stripped, BACKTICKS) \/ StartsWith(stripped, TILDES)

(***************************************************************************)
(* tools/pdf_markdown_cleanup.py                                           *)
(***************************************************************************)
\* WHITESPACE_RUN_RE.sub(" ", s): each maximal run of two or more spaces or
\* tabs becomes one space; a single space or tab stays.
IsSpaceOrTab(c) == c \in {SP, TAB}
RECURSIVE CollapseRunsFrom(_, _, _)
CollapseRunsFrom(s, i, acc) ==
    IF i > Len(s) THEN acc
    ELSE IF IsSpaceOrTab(s[i]) THEN
        LET n == LeadCount(SubSeq(s, i, Len(s)), IsSpaceOrTab) IN
        CollapseRunsFrom(s, i + n, Append(acc, IF n >= 2 THEN SP ELSE s[i]))
    ELSE CollapseRunsFrom(s, i + 1, Append(acc, s[i]))
WHITESPACE_RUN_sub(s) == CollapseRunsFrom(s, 1, <<>>)

collapse_internal_whitespace_step(st, line) ==
    IF IsFence(LStrip(line)) THEN
        [in_code_block |-> ~st.in_code_block, cleaned |-> Append(st.cleaned, RStrip(line))]
    ELSE IF st.in_code_block THEN
        [st EXCEPT !.cleaned = Append(@, RStrip(line))]
    ELSE
        LET leading_len == Len(line) - Len(LStripSpaces(line))
            prefix == SubSeq(line, 1, leading_len)
            rest == WHITESPACE_RUN_sub(SubSeq(line, leading_len + 1, Len(line)))
        IN [st EXCEPT !.cleaned = Append(@, RStrip(prefix \o rest))]
collapse_internal_whitespace(lines) ==
    FoldLeft(collapse_internal_whitespace_step,
             [in_code_block |-> FALSE, cleaned |-> <<>>], lines).cleaned

collapse_blank_lines_step(st, line) ==
    IF line = <<>> THEN
        IF st.blank_streak + 1 > 1 THEN [st EXCEPT !.blank_streak = @ + 1]
        ELSE [blank_streak |-> st.blank_streak + 1, result |-> Append(st.result, line)]
    ELSE [blank_streak |-> 0, result |-> Append(st.result, line)]
pdf_collapse_blank_lines(lines) ==
    FoldLeft(collapse_blank_lines_step, [blank_streak |-> 0, result |-> <<>>], lines).result

\* LIST_MARKER_RE.match(s)
LIST_MARKER_match(s) ==
    LET d == LeadCount(s, IsDigit) IN
    \/ Len(s) >= 2 /\ s[1] \in {"-", "*", "+"} /\ IsSpace(s[2])
    \/ d >= 1 /\ Len(s) >= d + 2 /\ s[d + 1] \in {".", ")"} /\ IsSpace(s[d + 2])
    \/ Len(s) >= 3 /\ IsAlpha(s[1]) /\ s[2] \in {".", ")"} /\ IsSpace(s[3])

\* FOOTNOTE_DEF_RE.match(s) of pdf_markdown_cleanup: "[^", one or more
\* characters other than "]", then "]:".
IsNotCloseBracket(c) == c # "]"
PDF_FOOTNOTE_DEF_match(s) ==
    /\ StartsWith(s, <<"[", "^">>)
    /\ LET n == LeadCount(SubSeq(s, 3, Len(s)), IsNotCloseBracket) IN
       n >= 1 /\ Len(s) >= n + 4 /\ s[n + 3] = "]" /\ s[n + 4] = ":"

HRULES == {<<"-", "-", "-">>, <<"*", "*", "*">>, <<"_", "_", "_">>}

is_paragraph_candidate(original_line) ==
    LET stripped == Strip(original_line)
        leading_spaces == Len(original_line) - Len(LStripSpaces(original_line))
    IN /\ stripped # <<>>
       /\ leading_spaces < 4
       /\ ~StartsWith(stripped, <<"#">>)
       /\ ~StartsWith(stripped, <<">">>)
       /\ ~StartsWith(stripped, <<"|">>)
       /\ stripped \notin HRULES
       /\ ~(StartsWith(stripped, <<"<">>) /\ EndsWith(stripped, <<">">>))
       /\ ~LIST_MARKER_match(stripped)
       /\ ~PDF_FOOTNOTE_DEF_match(stripped)

\* combine_paragraph_lines without de-hyphenation: every fragment is joined
\* with a space.
combine_step_space(combined, part) ==
    LET chunk == Strip(part) IN
    IF chunk = <<>> THEN combined
    ELSE IF combined # <<>> THEN combined \o <<SP>> \o chunk
    ELSE chunk

combine_step(combined, part) ==
    LET chunk == Strip(part) IN
    IF chunk = <<>> THEN combined
    ELSE IF combined # <<>> THEN
        IF EndsWith(combined, <<"-">>) /\ ~EndsWith(combined, <<"-", "-">>)
        THEN SubSeq(combined, 1, Len(combined) - 1) \o chunk
        ELSE combined \o <<SP>> \o chunk
    ELSE chunk
combine_paragraph_lines(lines) == FoldLeft(combine_step, <<>>, lines)

\* flush_buffer() of unwrap_paragraphs: the result list after the flush.
flush_buffer(result, buffer) ==
    IF buffer = <<>> THEN result
    ELSE LET paragraph == combine_paragraph_lines(buffer) IN
         IF paragraph # <<>> THEN result \o <<paragraph, <<>>>> ELSE result

unwrap_step(st, line) ==
    LET current == RStrip(line)
        stripped_leading == LStrip(current)
    IN IF IsFence(stripped_leading) THEN
           [result |-> Append(flush_buffer(st.result, st.buffer), current),
            buffer |-> <<>>, in_code_block |-> ~st.in_code_block]
       ELSE IF st.in_code_block THEN
           [st EXCEPT !.result = Append(@, current)]
       ELSE IF Strip(current) = <<>> THEN
           [st EXCEPT !.result = Append(flush_buffer(st.result, st.buffer), <<>>),
                      !.buffer = <<>>]
       ELSE IF is_paragraph_candidate(current) THEN
           [st EXCEPT !.buffer = Append(@, current)]
       ELSE
           [st EXCEPT !.result = Append(flush_buffer(st.result, st.buffer), current),
                      !.buffer = <<>>]
unwrap_paragraphs(lines) ==
    LET st == FoldLeft(unwrap_step,
                       [result |-> <<>>, buffer |-> <<>>, in_code_block |-> FALSE], lines)
        result == flush_buffer(st.result, st.buffer)
    IN IF result # <<>> /\ result[Len(result)] = <<>>
       THEN SubSeq(result, 1, Len(result) - 1) ELSE result

normalise_text(text) ==
    LET lines == pdf_collapse_blank_lines(collapse_internal_whitespace(
                     unwrap_paragraphs(SplitLines(ReplaceCh(text, NBSP, SP)))))
    IN Strip(JoinLines(lines)) \o <<NL>>

(***************************************************************************)
(* Dictionaries, optional values and decimal numerals.                     *)
(***************************************************************************)
\* A dict is a function on its keys; {} is the function with no keys.
EmptyDict == <<>>
DictGet(d, k, default) == IF k \in DOMAIN d THEN d[k] ELSE default
DictPut(d, k, v) == [x \in DOMAIN d \cup {k} |-> IF x = k THEN v ELSE d[x]]

\* Optional[str]: None is the empty sequence, a value t is <<t>>.
None == <<>>
Some(t) == <<t>>

DigitChars == <<"0", "1", "2", "3", "4", "5", "6", "7", "8", "9">>
\* str(n) of a natural number, as in an f-string.
RECURSIVE IntToStr(_)
IntToStr(n) ==
    IF n < 10 THEN <<DigitChars[n + 1]>>
    ELSE Append(IntToStr(n \div 10), DigitChars[(n % 10) + 1])

\* re.sub of a one-character class repeated ("\s+", "-+") by one character:
\* each maximal run of characters in the class becomes ch.
RECURSIVE ReplaceRunsFrom(_, _, _, _, _)
ReplaceRunsFrom(s, InClass(_), ch, i, acc) ==
    IF i > Len(s) THEN acc
    ELSE IF InClass(s[i]) THEN
        ReplaceRunsFrom(s, InClass, ch, i + LeadCount(SubSeq(s, i, Len(s)), InClass),
                        Append(acc, ch))
    ELSE ReplaceRunsFrom(s, InClass, ch, i + 1, Append(acc, s[i]))
ReplaceRuns(s, InClass(_), ch) == ReplaceRunsFrom(s, InClass, ch, 1, <<>>)

IsHyphen(c) == c = "-"
IsHash(c) == c = "#"
IsColon(c) == c = ":"
\* str.strip("-") and str.rstrip(":")
StripHyphens(s) ==
    SubSeq(s, LeadCount(s, IsHyphen) + 1, Len(s) - TrailCount(s, IsHyphen))
RStripColons(s) == SubSeq(s, 1, Len(s) - TrailCount(s, IsColon))

(***************************************************************************)
(* Python's re module.  A pattern is a tree: CSet and NSet are character   *)
(* classes, Cat a sequence, Alt an alternation tried in order, Rep a       *)
(* greedy and LazyRep a lazy repetition (hi = -1: no upper bound), Grp a   *)
(* capturing group, BOL/EOL the anchors (MBOL/MEOL under re.MULTILINE),    *)
(* Ahead/NotAhead/NotBehind the lookarounds, WB the word boundary and      *)
(* BackRef a reference to a group.                                         *)
(* ReMatch is the backtracking matcher: it matches the patterns on the     *)
(* stack one after the other from position i of s and gives the first      *)
(* success in the order re tries the alternatives.                         *)
(***************************************************************************)
CSet(S) == [t |-> "set", s |-> S]
NSet(S) == [t |-> "nset", s |-> S]
Cat(a) == [t |-> "cat", a |-> a]
Alt(a) == [t |-> "alt", a |-> a]
Rep(r, lo, hi) == [t |-> "rep", r |-> r, lo |-> lo, hi |-> hi, greedy |-> TRUE]
LazyRep(r, lo, hi) == [t |-> "rep", r |-> r, lo |-> lo, hi |-> hi, greedy |-> FALSE]
Star(r) == Rep(r, 0, -1)
Plus(r) == Rep(r, 1, -1)
Opt(r) == Rep(r, 0, 1)
Grp(n, r) == [t |-> "grp", n |-> n, r |-> r]
BOL == [t |-> "bol", multi |-> FALSE]
EOL == [t |-> "eol", multi |-> FALSE]
MBOL == [t |-> "bol", multi |-> TRUE]
MEOL == [t |-> "eol", multi |-> TRUE]
Ahead(r) == [t |-> "ahead", r |-> r, neg |-> FALSE]
NotAhead(r) == [t |-> "ahead", r |-> r, neg |-> TRUE]
NotBehind(S) == [t |-> "nbehind", s |-> S]
WB == [t |-> "wb"]
BackRef(n) == [t |-> "backref", n |-> n]
Lit(str) == [t |-> "lit", s |-> str]
\* A literal under re.IGNORECASE.
LitI(str) ==
    Cat([i \in 1..Len(str) |->
            CSet({c \in Lower \cup Upper \cup {str[i]} : ToLowerCh(c) = ToLowerCh(str[i])})])
\* \s, \S, \w, \d and the dot (without and with re.DOTALL)
WS == {SP, TAB, NL, NBSP}
ReS == CSet(WS)
ReNS == NSet(WS)
ReW == CSet(Lower \cup Upper \cup Digit \cup {"_"})
ReD == CSet(Digit)
Dot == NSet({NL})
DotAll == NSet({})

\* The number of characters from position i of s on that are in the class
\* of the node n (a CSet or an NSet).
InClass(n, c) == IF n.t = "set" THEN c \in n.s ELSE c \notin n.s
RunLength(n, s, i) ==
    IF \A j \in i..Len(s) : InClass(n, s[j]) THEN Len(s) - i + 1
    ELSE (CHOOSE j \in i..Len(s) : ~InClass(n, s[j]) /\ \A k \in i..(j - 1) : InClass(n, s[k])) - i

RECURSIVE ReMatch(_, _, _, _)
ReMatch(stack, s, i, caps) ==
    IF stack = <<>> THEN Some([end |-> i, caps |-> caps])
    ELSE
    LET n == Head(stack)
        rest == Tail(stack)
    IN
    CASE n.t \in {"set", "nset"} ->
            IF i <= Len(s) /\ InClass(n, s[i]) THEN ReMatch(rest, s, i + 1, caps) ELSE None
      [] n.t = "lit" ->
            IF i + Len(n.s) - 1 <= Len(s) /\ SubSeq(s, i, i + Len(n.s) - 1) = n.s
            THEN ReMatch(rest, s, i + Len(n.s), caps) ELSE None
      [] n.t = "cat" -> ReMatch(n.a \o rest, s, i, caps)
      [] n.t = "alt" ->
            IF n.a = <<>> THEN None
            ELSE LET first == ReMatch(<<Head(n.a)>> \o rest, s, i, caps) IN
                 IF first # None THEN first
                 ELSE ReMatch(<<Alt(Tail(n.a))>> \o rest, s, i, caps)
      [] n.t = "rep" /\ n.r.t \in {"set", "nset"} ->
            \* a repeated character class: the rest of the pattern is tried
            \* after each possible number of characters, the largest number
            \* first when the repetition is greedy, the smallest when lazy
            LET run == RunLength(n.r, s, i)
                most == IF n.hi >= 0 /\ n.hi < run THEN n.hi ELSE run
                tries == [c \in n.lo..most |-> ReMatch(rest, s, i + c, caps)]
                good == {c \in n.lo..most : tries[c] # None}
            IN IF good = {} THEN None
               ELSE IF n.greedy THEN tries[CHOOSE c \in good : \A d \in good : d <= c]
               ELSE tries[CHOOSE c \in good : \A d \in good : c <= d]
      [] n.t = "rep" ->
            LET again == [n EXCEPT !.lo = IF n.lo > 0 THEN n.lo - 1 ELSE 0,
                                   !.hi = IF n.hi > 0 THEN n.hi - 1 ELSE n.hi]
                more == IF n.hi = 0 THEN None
                        ELSE ReMatch(<<n.r, [t |-> "moved", from |-> i], again>> \o rest,
                                     s, i, caps)
                stop == IF n.lo = 0 THEN ReMatch(rest, s, i, caps) ELSE None
            IN IF n.greedy THEN (IF more # None THEN more ELSE stop)
               ELSE (IF stop # None THEN stop ELSE more)
      [] n.t = "moved" -> IF i > n.from THEN ReMatch(rest, s, i, caps) ELSE None
      [] n.t = "grp" ->
            ReMatch(<<n.r, [t |-> "endgrp", n |-> n.n, from |-> i]>> \o rest, s, i, caps)
      [] n.t = "endgrp" ->
            ReMatch(rest, s, i, DictPut(caps, n.n, SubSeq(s, n.from, i - 1)))
      [] n.t = "bol" ->
            IF i = 1 \/ (n.multi /\ s[i - 1] = NL) THEN ReMatch(rest, s, i, caps) ELSE None
      [] n.t = "eol" ->
            IF \/ i = Len(s) + 1
               \/ i = Len(s) /\ s[i] = NL
               \/ n.multi /\ i <= Len(s) /\ s[i] = NL
            THEN ReMatch(rest, s, i, caps) ELSE None
      [] n.t = "ahead" ->
            IF (ReMatch(<<n.r>>, s, i, caps) # None) # n.neg
            THEN ReMatch(rest, s, i, caps) ELSE None
      [] n.t = "nbehind" ->
            IF i > 1 /\ s[i - 1] \in n.s THEN None ELSE ReMatch(rest, s, i, caps)
      [] n.t = "backref" ->
            LET g == DictGet(caps, n.n, <<>>) IN
            IF i + Len(g) - 1 <= Len(s) /\ SubSeq(s, i, i + Len(g) - 1) = g
            THEN ReMatch(rest, s, i + Len(g), caps) ELSE None
      [] n.t = "wb" ->
            IF (i > 1 /\ IsWord(s[i - 1])) # (i <= Len(s) /\ IsWord(s[i]))
            THEN ReMatch(rest, s, i, caps) ELSE None

\* The match object of pattern.match(s): None, or Some of the match with
\* its start, its end (one past the last character), its text (group 0)
\* and the text of its groups.
MatchAt(re, s, i) ==
    Bind(ReMatch(<<re>>, s, i, EmptyDict), LAMBDA m :
        IF m = None THEN None
        ELSE Some([start |-> i, end |-> m[1].end, all |-> SubSeq(s, i, m[1].end - 1),
                   caps |-> m[1].caps]))
ReMatches(re, s) == MatchAt(re, s, 1)
\* The matches of the pattern at each position of s.
MatchTable(re, s) == [i \in 1..(Len(s) + 1) |-> MatchAt(re, s, i)]
\* The first position from `from` on where the table has a match, 0 if none.
FirstMatch(tbl, from) ==
    LET at == {i \in from..Len(tbl) : tbl[i] # None} IN
    IF at = {} THEN 0 ELSE CHOOSE i \in at : \A j \in at : i <= j
\* pattern.search(s): the leftmost match.
ReSearch(re, s) ==
    Bind(MatchTable(re, s), LAMBDA tbl :
        LET i == FirstMatch(tbl, 1) IN IF i = 0 THEN None ELSE tbl[i])
\* match.group(name): the empty text stands for a group that took no part.
Group(m, name) == DictGet(m.caps, name, <<>>)

\* pattern.sub(repl, s) for a function repl of the match.
RECURSIVE ReSubFrom(_, _, _, _, _)
ReSubFrom(tbl, Repl(_), s, from, acc) ==
    LET i == FirstMatch(tbl, from) IN
    IF i = 0 THEN acc \o SubSeq(s, from, Len(s))
    ELSE LET g == tbl[i][1]
             out == acc \o SubSeq(s, from, g.start - 1) \o Repl(g)
         IN IF g.end > g.start THEN ReSubFrom(tbl, Repl, s, g.end, out)
            ELSE IF g.start > Len(s) THEN out
            ELSE ReSubFrom(tbl, Repl, s, g.start + 1, Append(out, s[g.start]))
ReSubWith(re, Repl(_), s) == ReSubFrom(MatchTable(re, s), Repl, s, 1, <<>>)
\* pattern.sub(repl, s) for a fixed text repl, and for repl = the group.
ReSub(re, repl, s) == ReSubWith(re, LAMBDA m : repl, s)
ReSubGroup(re, name, s) == ReSubWith(re, LAMBDA m : Group(m, name), s)

(***************************************************************************)
(* tools/epub_markdown_cleanup.py: headings, slugs and the table of        *)
(* contents.                                                               *)
(***************************************************************************)
\* HEADING_PATTERN.match(line): the number of "#" (group 1) when the line is
\* one to six "#" followed by white space, else 0; and group 2, the text
\* after that white space.
HeadingLevel(line) ==
    LET h == LeadCount(line, IsHash) IN
    IF h >= 1 /\ h <= 6 /\ Len(line) > h /\ IsSpace(line[h + 1]) THEN h ELSE 0
HeadingGroup2(line) == LStrip(SubSeq(line, HeadingLevel(line) + 1, Len(line)))

IsSlugChar(c) == IsWord(c) \/ IsSpace(c) \/ c = "-"
epub_slugify_heading(text) ==
    LET slug0 == ToLower(Strip(text))
        slug1 == SelectSeq(slug0, IsSlugChar)
        slug2 == ReplaceRuns(slug1, IsSpace, "-")
        slug3 == ReplaceRuns(slug2, IsHyphen, "-")
    IN StripHyphens(slug3)

TOC_NAMES == {<<"t", "a", "b", "l", "e", SP, "o", "f", SP, "c", "o", "n", "t", "e", "n", "t", "s">>, <<"t", "a", "b", "l", "e", SP, "o", "f", SP, "c", "o", "n", "t", "e", "n", "t">>}
SECTION == <<"s", "e", "c", "t", "i", "o", "n">>

\* "#" * n
Hashes(n) == [i \in 1..n |-> "#"]

\* The level a heading of the given level comes out at.
NewLevelPlusOne(level) == level + 1
NewLevel(level) == IF level = 1 THEN 2 ELSE level

\* The slug demote_headings gives a level-2 heading, and the count it stores.
DedupedSlug(base_slug, count) ==
    IF count = 0 THEN base_slug ELSE base_slug \o <<"-">> \o IntToStr(count)

\* text.strip() or fallback
OrElse(text, fallback) == IF text # <<>> THEN text ELSE fallback

demote_headings_step(st, line) ==
    Bind(Strip(line), LAMBDA stripped :
    Bind(HeadingLevel(line), LAMBDA level :
    Bind(Strip(HeadingGroup2(line)), LAMBDA text :
    Bind(RStripColons(ToLower(text)), LAMBDA normalized :
    Bind(NewLevel(level), LAMBDA new_level :
    Bind(OrElse(epub_slugify_heading(text), SECTION), LAMBDA base_slug :
    Bind(DictGet(st.slug_counts, base_slug, 0), LAMBDA count :
    Bind(DedupedSlug(base_slug, count), LAMBDA slug_id :
    Bind(RStrip(Hashes(new_level) \o <<SP>> \o text), LAMBDA plain :
    LET first == IF st.first_heading_text = None /\ normalized \notin TOC_NAMES
                 THEN Some(text) ELSE st.first_heading_text
        slugged == new_level = 2 /\ normalized \notin TOC_NAMES
        new_line == IF slugged THEN plain \o <<SP, "{", "#">> \o slug_id \o <<"}">> ELSE plain
    IN IF StartsWith(stripped, BACKTICKS) \/ StartsWith(stripped, TILDES) THEN
           [st EXCEPT !.in_code_block = ~@, !.new_lines = Append(@, line)]
       ELSE IF ~st.in_code_block /\ level > 0 THEN
           [st EXCEPT !.new_lines = Append(@, new_line),
                      !.first_heading_text = first,
                      !.toc_entries = IF slugged THEN Append(@, <<text, slug_id>>) ELSE @,
                      !.slug_counts = IF slugged THEN DictPut(@, base_slug, count + 1) ELSE @]
       ELSE [st EXCEPT !.new_lines = Append(@, line)])))))))))

\* demote_headings(lines): [new_lines, toc_entries, first_heading_text].
demote_headings(lines) ==
    Bind(FoldLeft(demote_headings_step,
                  [in_code_block |-> FALSE, new_lines |-> <<>>, toc_entries |-> <<>>,
                   first_heading_text |-> None, slug_counts |-> EmptyDict], lines),
         LAMBDA st : [new_lines |-> st.new_lines, toc_entries |-> st.toc_entries,
                      first_heading_text |-> st.first_heading_text])

TOC_HEADING == <<"#", "#", SP, "T", "a", "b", "l", "e", SP, "o", "f", SP, "C", "o", "n", "t", "e", "n", "t", "s">>
TocItemSlugOfText(text, slug) ==
    <<"-", SP, "[">> \o text \o <<"]", "(", "#">> \o epub_slugify_heading(text) \o <<")">>
TocItem(text, slug) == <<"-", SP, "[">> \o text \o <<"]", "(", "#">> \o slug \o <<")">>

build_toc_lines(entries) ==
    IF entries = <<>> THEN <<>>
    ELSE <<TOC_HEADING, <<>>>>
         \o [i \in 1..Len(entries) |-> TocItem(entries[i][1], entries[i][2])]
         \o <<<<>>>>

\* The line of replace_existing_toc's search: a level-2 heading named as a
\* table of contents.
IsEpubTocHeading(line) ==
    /\ HeadingLevel(line) = 2
    /\ RStripColons(ToLower(Strip(HeadingGroup2(line)))) \in TOC_NAMES

\* replace_existing_toc(lines, toc_lines): [lines, replaced].
replace_existing_toc(lines, toc_lines) ==
    IF toc_lines = <<>> \/ ~\E i \in 1..Len(lines) : IsEpubTocHeading(lines[i])
    THEN [lines |-> lines, replaced |-> FALSE]
    ELSE Bind(CHOOSE i \in 1..Len(lines) :
                  /\ IsEpubTocHeading(lines[i])
                  /\ \A j \in 1..(i - 1) : ~IsEpubTocHeading(lines[j]), LAMBDA start :
         Bind({i \in (start + 1)..Len(lines) : HeadingLevel(lines[i]) > 0}, LAMBDA after :
         LET stop == IF after = {} THEN Len(lines) + 1
                     ELSE CHOOSE i \in after : \A j \in after : i <= j
         IN [lines |-> SubSeq(lines, 1, start - 1) \o toc_lines
                       \o SubSeq(lines, stop, Len(lines)),
             replaced |-> TRUE]))

(***************************************************************************)
(* tools/toc_rebuilder.py                                                  *)
(***************************************************************************)
IsAsciiSlugChar(c) == c \in Lower \cup Digit \/ IsSpace(c) \/ c = "-"

\* slugify(text, seen=seen): [slug, seen], the slug returned and the dict as
\* the call leaves it.  unicodedata.normalize("NFKD") and the removal of
\* combining marks change none of the model's characters.
slugify(text, seen) ==
    LET n0 == Strip(ToLower(text))
        n1 == SelectSeq(n0, IsAsciiSlugChar)
        n2 == ReplaceRuns(n1, IsSpace, "-")
        n3 == ReplaceRuns(n2, IsHyphen, "-")
    IN Bind(OrElse(StripHyphens(n3), SECTION), LAMBDA slug :
       Bind(DictGet(seen, slug, 0), LAMBDA count :
           [slug |-> IF count # 0 THEN slug \o <<"-">> \o IntToStr(count) ELSE slug,
            seen |-> DictPut(seen, slug, count + 1)]))

H2_PREFIX == <<"#", "#", SP>>
H1_PREFIX == <<"#", SP>>
TABLE_OF_CONTENTS_LOWER == <<"t", "a", "b", "l", "e", SP, "o", "f", SP, "c", "o", "n", "t", "e", "n", "t", "s">>

\* title.upper() == "TABLE OF CONTENTS": for the model's characters, the
\* same titles as those whose lower() is "table of contents".
collect_h2_step(headings, line) ==
    IF ~StartsWith(line, H2_PREFIX) THEN headings
    ELSE LET title == Strip(SubSeq(line, 4, Len(line))) IN
         IF ToLower(title) = TABLE_OF_CONTENTS_LOWER THEN headings
         ELSE Append(headings, title)
collect_h2_headings(lines) == FoldLeft(collect_h2_step, <<>>, lines)

\* The entries of build_toc_block's loop: each heading with the slug
\* slugify gives it, the dict "seen" running through the calls.
toc_entries_step(st, heading) ==
    Bind(slugify(heading, st.seen), LAMBDA r :
        [entries |-> Append(st.entries, <<heading, r.slug>>), seen |-> r.seen])
toc_block_entries(headings) ==
    FoldLeft(toc_entries_step, [entries |-> <<>>, seen |-> EmptyDict], headings).entries

TOC_HEADING_UPPER == <<"#", "#", SP, "T", "A", "B", "L", "E", SP, "O", "F", SP, "C", "O", "N", "T", "E", "N", "T", "S">>
build_toc_block(headings) ==
    IF headings = <<>> THEN <<TOC_HEADING_UPPER, <<>>>>
    ELSE Bind(toc_block_entries(headings), LAMBDA entries :
             <<TOC_HEADING_UPPER, <<>>>>
             \o [i \in 1..Len(entries) |-> TocItem(entries[i][1], entries[i][2])]
             \o <<<<>>>>)

TOC_HEADING_LOWER == <<"#", "#", SP, "t", "a", "b", "l", "e", SP, "o", "f", SP, "c", "o", "n", "t", "e", "n", "t", "s">>
IsTocMarkerLine(line) == ToLower(Strip(line)) = TOC_HEADING_LOWER

\* The least element of a nonempty set of numbers.
Min(S) == CHOOSE i \in S : \A j \in S : i <= j

\* find_existing_toc(lines): [start, end] as 0-based indexes, or None.
find_existing_toc(lines) ==
    Bind({i \in 1..Len(lines) : IsTocMarkerLine(lines[i])}, LAMBDA marks :
    IF marks = {} THEN None
    ELSE Bind(Min(marks), LAMBDA toc_start :
         Bind({i \in (toc_start + 1)..Len(lines) :
                  StartsWith(lines[i], H2_PREFIX) \/ StartsWith(lines[i], H1_PREFIX)},
              LAMBDA ends :
                  Some([start |-> toc_start - 1,
                        end |-> IF ends = {} THEN Len(lines) ELSE Min(ends) - 1]))))

FM_MARKER == <<"-", "-", "-">>

\* determine_insertion_index(lines), a 0-based index.
determine_insertion_index(lines) ==
    Bind({i \in 2..Len(lines) : Strip(lines[i]) = FM_MARKER}, LAMBDA closers :
    Bind({i \in 1..Len(lines) : StartsWith(lines[i], H1_PREFIX)}, LAMBDA titles :
       IF lines # <<>> /\ Strip(lines[1]) = FM_MARKER /\ closers # {}
       THEN Min({Min(closers), Len(lines)})
       ELSE IF titles # {} THEN Min(titles)
       ELSE 0))

\* rebuild_toc(lines): [new_lines, changed].
rebuild_toc_insert(lines, toc_lines, insert_at) ==
    LET needs_blank_before == insert_at > 0 /\ Strip(lines[insert_at]) # <<>>
        suffix == SubSeq(lines, insert_at + 1, Len(lines))
    IN SubSeq(lines, 1, insert_at)
       \o (IF needs_blank_before THEN <<<<>>>> ELSE <<>>) \o toc_lines
       \o (IF suffix # <<>> /\ Strip(suffix[1]) # <<>> THEN <<<<>>>> ELSE <<>>)
       \o suffix

rebuild_toc(lines) ==
    Bind(build_toc_block(collect_h2_headings(lines)), LAMBDA toc_lines :
    Bind(find_existing_toc(lines), LAMBDA existing :
    Bind(IF existing # None
         THEN SubSeq(lines, 1, existing[1].start) \o toc_lines
              \o SubSeq(lines, existing[1].end + 1, Len(lines))
         ELSE rebuild_toc_insert(lines, toc_lines, determine_insertion_index(lines)),
         LAMBDA new_lines : [new_lines |-> new_lines, changed |-> new_lines # lines])))

(***************************************************************************)
(* tools/acrobat-pdf-markdown_cleanup.py: the table of contents.           *)
(***************************************************************************)
acrobat_slugify_heading(title) ==
    LET s0 == SelectSeq(ToLower(title), IsAsciiSlugChar)
        s1 == ReplaceRuns(Strip(s0), IsSpace, "-")
    IN ReplaceRuns(s1, IsHyphen, "-")

\* heading_re.match(line) of insert_table_of_contents, "^## (?!#)(.+?)\s*$":
\* whether it matches, and its group 1 (the shortest nonempty text after
\* "## " that only white space follows).
AcrobatH2Match(line) ==
    StartsWith(line, H2_PREFIX) /\ Len(line) >= 4 /\ line[4] # "#"
AcrobatH2Group1(line) ==
    LET rest == SubSeq(line, 4, Len(line)) IN
    IF RStrip(rest) = <<>> THEN <<rest[1]>> ELSE RStrip(rest)

acrobat_headings_step(headings, line) ==
    IF ~AcrobatH2Match(line) THEN headings
    ELSE LET title == Strip(AcrobatH2Group1(line)) IN
         IF ToLower(title) = TABLE_OF_CONTENTS_LOWER THEN headings
         ELSE Append(headings, <<title, acrobat_slugify_heading(title)>>)
\* The (title, slug) list insert_table_of_contents collects.
acrobat_toc_headings(lines) == FoldLeft(acrobat_headings_step, <<>>, lines)

H1_TOC_LOWER == <<"#", SP, "t", "a", "b", "l", "e", SP, "o", "f", SP, "c", "o", "n", "t", "e", "n", "t", "s">>

\* The replacement of an existing table of contents that starts at line
\* toc_start.
acrobat_replace_toc(lines, toc_lines, toc_start) ==
    Bind({i \in (toc_start + 1)..Len(lines) : StartsWith(lines[i], H2_PREFIX)}, LAMBDA ends :
        SubSeq(lines, 1, toc_start - 1) \o toc_lines
        \o SubSeq(lines, IF ends = {} THEN Len(lines) + 1 ELSE Min(ends), Len(lines)))

\* The insertion of a new table of contents after the line the loop breaks
\* at, or after the last line.
acrobat_insert_toc(lines, toc_lines) ==
    Bind({i \in 1..Len(lines) :
             /\ StartsWith(Strip(lines[i]), <<"#">>)
             /\ ToLower(Strip(lines[i])) # H1_TOC_LOWER}, LAMBDA breaks :
    Bind(IF breaks = {} THEN Len(lines) ELSE Min(breaks), LAMBDA insert_at :
        SubSeq(lines, 1, insert_at) \o <<<<>>>> \o toc_lines
        \o SubSeq(lines, insert_at + 1, Len(lines))))

insert_table_of_contents(text) ==
    Bind(SplitLines(text), LAMBDA lines :
    Bind(acrobat_toc_headings(lines), LAMBDA headings :
    Bind({i \in 1..Len(lines) : IsTocMarkerLine(lines[i])}, LAMBDA marks :
    LET toc_lines == <<TOC_HEADING, <<>>>>
                     \o [i \in 1..Len(headings) |-> TocItem(headings[i][1], headings[i][2])]
                     \o <<<<>>>>
    IN IF headings = <<>> THEN text
       ELSE IF marks # {} THEN JoinLines(acrobat_replace_toc(lines, toc_lines, Min(marks)))
       ELSE JoinLines(acrobat_insert_toc(lines, toc_lines)))))

(***************************************************************************)
(* tools/epub_markdown_cleanup.py: the front-matter codec.                 *)
(*                                                                         *)
(* A metadata dict keeps its keys in insertion order: keys is that order,  *)
(* val the mapping.  A value is a str or a list of str; a missing value    *)
(* (None) is rendered like the empty str.                                  *)
(***************************************************************************)
ScalarV(s) == [is_list |-> FALSE, scalar |-> s, items |-> <<>>]
ListV(items) == [is_list |-> TRUE, scalar |-> <<>>, items |-> items]
NoneV == [is_list |-> FALSE, scalar |-> <<>>, items |-> <<>>]

Range(s) == {s[i] : i \in 1..Len(s)}
EmptyMeta == [keys |-> <<>>, val |-> EmptyDict]
MetaGet(d, k) == DictGet(d.val, k, NoneV)
MetaPut(d, k, v) ==
    [keys |-> IF k \in Range(d.keys) THEN d.keys ELSE Append(d.keys, k),
     val |-> DictPut(d.val, k, v)]

FM_DASHES == <<"-", "-", "-">>
\* The index of the first ch in s, 0 when there is none.
IndexOf(s, ch) ==
    IF \E i \in 1..Len(s) : s[i] = ch
    THEN CHOOSE i \in 1..Len(s) : s[i] = ch /\ \A j \in 1..(i - 1) : s[j] # ch
    ELSE 0

IsQuotedValue(value) ==
    \/ StartsWith(value, <<"\"">>) /\ EndsWith(value, <<"\"">>)
    \/ StartsWith(value, <<"'">>) /\ EndsWith(value, <<"'">>)

\* One round of the loop of parse_front_matter_block; failed stands for
\* the loop's "return None".
parse_front_matter_step(st, raw) ==
    LET stripped == Strip(raw)
        colon == IndexOf(raw, ":")
        key == Strip(SubSeq(raw, 1, colon - 1))
        value == Strip(SubSeq(raw, colon + 1, Len(raw)))
        order == IF key \in Range(st.order) THEN st.order ELSE Append(st.order, key)
    IN
    IF st.failed THEN st
    ELSE IF stripped = <<>> \/ StartsWith(stripped, <<"#">>) THEN st
    ELSE IF StartsWith(stripped, <<"-", SP>>) THEN
        IF st.current_key = None \/ ~MetaGet(st.metadata, st.current_key[1]).is_list
        THEN [st EXCEPT !.failed = TRUE]
        ELSE [st EXCEPT !.metadata =
                 MetaPut(st.metadata, st.current_key[1],
                         ListV(Append(MetaGet(st.metadata, st.current_key[1]).items,
                                      Strip(SubSeq(stripped, 3, Len(stripped))))))]
    ELSE IF colon > 0 THEN
        IF key = <<>> THEN [st EXCEPT !.failed = TRUE]
        ELSE IF value = <<>> THEN
            [st EXCEPT !.order = order,
                       !.metadata = MetaPut(st.metadata, key, ListV(<<>>)),
                       !.current_key = Some(key)]
        ELSE IF IsQuotedValue(value) THEN
            [st EXCEPT !.order = order,
                       !.quoted = st.quoted \cup {key},
                       !.metadata = MetaPut(st.metadata, key,
                                            ScalarV(SubSeq(value, 2, Len(value) - 1))),
                       !.current_key = Some(key)]
        ELSE
            [st EXCEPT !.order = order,
                       !.metadata = MetaPut(st.metadata, key, ScalarV(value)),
                       !.current_key = Some(key)]
    ELSE [st EXCEPT !.failed = TRUE]

\* parse_front_matter_block(lines): None, or Some([metadata, order, quoted]).
parse_front_matter_block(block) ==
    IF block = <<>> \/ Strip(block[1]) # FM_DASHES \/ Strip(block[Len(block)]) # FM_DASHES
    THEN None
    ELSE LET st == FoldLeft(parse_front_matter_step,
                            [failed |-> FALSE, metadata |-> EmptyMeta, order |-> <<>>,
                             quoted |-> {}, current_key |-> None],
                            SubSeq(block, 2, Len(block) - 1))
         IN IF st.failed THEN None
            ELSE Some([metadata |-> st.metadata, order |-> st.order, quoted |-> st.quoted])

HasCh(s, ch) == \E i \in 1..Len(s) : s[i] = ch
YAML_WORDS == {<<"t", "r", "u", "e">>, <<"f", "a", "l", "s", "e">>, <<"n", "u", "l", "l">>, <<"~">>}
needs_quotes(value) ==
    \/ value = <<>>
    \/ value # Strip(value)
    \/ \E ch \in {":", "#", "\"", "'"} : HasCh(value, ch)
    \/ /\ \E i \in 1..Len(value) : IsSpace(value[i])
       /\ \/ \E i \in 1..(Len(value) - 1) : value[i] = ":" /\ value[i + 1] = ":"
          \/ StartsWith(value, <<"h", "t", "t", "p">>)
    \/ ToLower(value) \in YAML_WORDS

\* text.replace("\"", "\\\"")
RECURSIVE EscapeQuotes(_)
EscapeQuotes(text) ==
    IF text = <<>> THEN <<>>
    ELSE (IF Head(text) = "\"" THEN <<"\\", "\"">> ELSE <<Head(text)>>)
         \o EscapeQuotes(Tail(text))

format_scalar_value(value, force_quotes) ==
    IF force_quotes \/ needs_quotes(value)
    THEN <<"\"">> \o EscapeQuotes(value) \o <<"\"">>
    ELSE value

\* The lines serialize_front_matter writes for one key.
FormatItem(item) == <<SP, SP, "-", SP>> \o format_scalar_value(item, FALSE)
serialize_key(metadata, quoted, key) ==
    LET value == MetaGet(metadata, key) IN
    IF value.is_list
    THEN <<key \o <<":">>>> \o [i \in 1..Len(value.items) |-> FormatItem(value.items[i])]
    ELSE <<key \o <<":", SP>> \o format_scalar_value(value.scalar, key \in quoted)>>

\* order + [k for k in metadata.keys() if k not in order], each key once.
RECURSIVE Dedup(_, _)
Dedup(s, acc) ==
    IF s = <<>> THEN acc
    ELSE Dedup(Tail(s), IF Head(s) \in Range(acc) THEN acc ELSE Append(acc, Head(s)))
NotIn(s, order) == SelectSeq(s, LAMBDA k : k \notin Range(order))
RECURSIVE serialize_keys(_, _, _)
serialize_keys(metadata, quoted, keys) ==
    IF keys = <<>> THEN <<>>
    ELSE serialize_key(metadata, quoted, Head(keys))
         \o serialize_keys(metadata, quoted, Tail(keys))
serialize_front_matter(metadata, order, quoted) ==
    <<FM_DASHES>>
    \o serialize_keys(metadata, quoted, Dedup(order \o NotIn(metadata.keys, order), <<>>))
    \o <<FM_DASHES>>

(***************************************************************************)
(* tools/epub_markdown_cleanup.py: the passes over the body lines.  Each   *)
(* pattern stands next to the pass that uses it, written as the tree of    *)
(* the regular expression in the source.                                   *)
(***************************************************************************)
\* The frame the fence-aware passes share: a line that starts a fence
\* toggles in_code_block and is copied, a line inside a block is copied,
\* and a line outside becomes the lines given as outside.
FenceInit == [in_code_block |-> FALSE, out |-> <<>>]
FenceStep(st, line, marker, outside) ==
    IF marker THEN [in_code_block |-> ~st.in_code_block, out |-> Append(st.out, line)]
    ELSE IF st.in_code_block THEN [st EXCEPT !.out = Append(st.out, line)]
    ELSE [st EXCEPT !.out = st.out \o outside]

normalize_square_bullets(lines) ==
    LET \* ^(?P<prefix>\s*)\[•\s*\]\s*(?P<text>.+)$
        BULLETED_SQUARE_PATTERN ==
            Cat(<<BOL, Grp("prefix", Star(ReS)), Lit(<<"[", BULLET>>), Star(ReS), Lit(<<"]">>),
                  Star(ReS), Grp("text", Plus(Dot)), EOL>>)
        \* ^(?P<prefix>\s*)•\s+(?P<text>.+)$
        BULLET_ONLY_PATTERN ==
            Cat(<<BOL, Grp("prefix", Star(ReS)), Lit(<<BULLET>>), Plus(ReS),
                  Grp("text", Plus(Dot)), EOL>>)
        \* \[•\s*\]
        SQUARE_BULLET_MARKER_PATTERN == Cat(<<Lit(<<"[", BULLET>>), Star(ReS), Lit(<<"]">>)>>)
        item(m) == Group(m, "prefix") \o <<"-", SP>> \o Strip(Group(m, "text"))
        one(line) ==
            LET m1 == ReMatches(BULLETED_SQUARE_PATTERN, line)
                m2 == ReMatches(BULLET_ONLY_PATTERN, line)
            IN IF m1 # None THEN item(m1[1])
               ELSE IF m2 # None THEN item(m2[1])
               ELSE ReSub(SQUARE_BULLET_MARKER_PATTERN, <<SP, "-", SP>>, line)
    IN [i \in 1..Len(lines) |-> one(lines[i])]

strip_part_links(lines) ==
    LET \* \[(?P<label>[^\]]+)\]\(#part[^\)]+\)   (IGNORECASE)
        PART_LINK_PATTERN ==
            Cat(<<Lit(<<"[">>), Grp("label", Plus(NSet({"]"}))), Lit(<<"]", "(">>),
                  LitI(<<"#", "p", "a", "r", "t">>), Plus(NSet({")"})), Lit(<<")">>)>>)
        step(st, line) ==
            FenceStep(st, line, IsFence(LStrip(line)),
                      <<ReSubGroup(PART_LINK_PATTERN, "label", line)>>)
    IN FoldLeft(step, FenceInit, lines).out

convert_inline_em_dashes(lines) ==
    LET \* (?<!-)(---)(?!-)
        INLINE_EM_DASH_PATTERN ==
            Cat(<<NotBehind({"-"}), Grp("1", Lit(<<"-", "-", "-">>)), NotAhead(Lit(<<"-">>))>>)
        stripped_full(line) == Strip(line)
        step(st, line) ==
            FenceStep(st, line, IsFence(LStrip(line)),
                      IF stripped_full(line) # <<>> /\ Range(stripped_full(line)) \subseteq {"-"}
                      THEN <<line>>
                      ELSE <<ReSub(INLINE_EM_DASH_PATTERN, <<EMDASH>>, line)>>)
    IN FoldLeft(step, FenceInit, lines).out

strip_non_link_brackets(lines) ==
    LET \* \[(?P<text>[^\]]+)\](?!\s*(\(|:))
        NON_LINK_BRACKET_PATTERN ==
            Cat(<<Lit(<<"[">>), Grp("text", Plus(NSet({"]"}))), Lit(<<"]">>),
                  NotAhead(Cat(<<Star(ReS), Alt(<<Lit(<<"(">>), Lit(<<":">>)>>)>>))>>)
        step(st, line) ==
            FenceStep(st, line, IsFence(LStrip(line)),
                      <<ReSubGroup(NON_LINK_BRACKET_PATTERN, "text", line)>>)
    IN FoldLeft(step, FenceInit, lines).out

remove_empty_brackets(lines) ==
    LET \* \[\s+\]
        EMPTY_BRACKETS_PATTERN == Cat(<<Lit(<<"[">>), Plus(ReS), Lit(<<"]">>)>>)
        \* " {2,}"
        SPACES == Rep(CSet({SP}), 2, -1)
        one(line) ==
            LET leading_spaces == Len(line) - Len(LStripSpaces(line))
                prefix == SubSeq(line, 1, leading_spaces)
                content == SubSeq(line, leading_spaces + 1, Len(line))
            IN IF content = <<>> THEN line
               ELSE prefix \o ReSub(SPACES, <<SP>>, ReSub(EMPTY_BRACKETS_PATTERN, <<>>, content))
    IN [i \in 1..Len(lines) |-> one(lines[i])]

remove_vestigial_blocks(lines) ==
    LET Colons == Cat(<<Lit(<<":", ":">>), Plus(CSet({":"}))>>)      \* :::+
        \* ^:::\s*\{[^}]*\}\s*$
        EMPTY_STYLE_BLOCK_PATTERN ==
            Cat(<<BOL, Lit(<<":", ":", ":">>), Star(ReS), Lit(<<"{">>), Star(NSet({"}"})), Lit(<<"}">>),
                  Star(ReS), EOL>>)
        \* ^:::+\s*$
        BARE_CALIBRE_PATTERN == Cat(<<BOL, Colons, Star(ReS), EOL>>)
        \* ^:::+\s+calibre[^\s]*\s*$   (IGNORECASE)
        CALIBRE_ONLY_PATTERN ==
            Cat(<<BOL, Colons, Plus(ReS), LitI(<<"c", "a", "l", "i", "b", "r", "e">>), Star(ReNS), Star(ReS), EOL>>)
        \* ^:::+\s+block_[^\s]*\s*$   (IGNORECASE)
        BLOCK_ONLY_PATTERN ==
            Cat(<<BOL, Colons, Plus(ReS), LitI(<<"b", "l", "o", "c", "k", "_">>), Star(ReNS), Star(ReS), EOL>>)
        \* ^\s*~+\s*$
        TILDE_LINE_PATTERN == Cat(<<BOL, Star(ReS), Plus(CSet({"~"})), Star(ReS), EOL>>)
        \* ^\s*:::\s+cbj_[^\s]+$   (IGNORECASE)
        CBJ_BLOCK_PATTERN ==
            Cat(<<BOL, Star(ReS), Lit(<<":", ":", ":">>), Plus(ReS), LitI(<<"c", "b", "j", "_">>), Plus(ReNS), EOL>>)
        \* ^\s*\\\s*$
        BACKSLASH_ONLY_PATTERN == Cat(<<BOL, Star(ReS), Lit(<<"\\">>), Star(ReS), EOL>>)
        \* ^\s*\{\s*style\s*=\s*\"[^\"]*\"\s*\}\s*$   (IGNORECASE)
        STYLE_LINE_PATTERN ==
            Cat(<<BOL, Star(ReS), Lit(<<"{">>), Star(ReS), LitI(<<"s", "t", "y", "l", "e">>), Star(ReS),
                  Lit(<<"=">>), Star(ReS), Lit(<<"\"">>), Star(NSet({"\""})), Lit(<<"\"">>),
                  Star(ReS), Lit(<<"}">>), Star(ReS), EOL>>)
        \* ^:::+\s*.*$
        COLON_BLOCK_PATTERN == Cat(<<BOL, Colons, Star(ReS), Star(Dot), EOL>>)
        dropped(stripped) ==
            LET patterns == <<EMPTY_STYLE_BLOCK_PATTERN, BARE_CALIBRE_PATTERN,
                              CALIBRE_ONLY_PATTERN, BLOCK_ONLY_PATTERN, TILDE_LINE_PATTERN,
                              CBJ_BLOCK_PATTERN, BACKSLASH_ONLY_PATTERN, STYLE_LINE_PATTERN,
                              COLON_BLOCK_PATTERN>>
            IN \E k \in 1..Len(patterns) : ReMatches(patterns[k], stripped) # None
        step(st, line) ==
            FenceStep(st, line, IsFence(LStrip(line)),
                      IF Strip(line) = <<>> THEN <<line>>
                      ELSE IF dropped(Strip(line)) THEN <<>>
                      ELSE <<line>>)
    IN FoldLeft(step, FenceInit, lines).out

HR == <<"<", "h", "r", ">">>
convert_dash_rules(lines) ==
    LET \* ^-{5,}$
        DASH_RULE_PATTERN == Cat(<<BOL, Rep(CSet({"-"}), 5, -1), EOL>>)
        step(st, line) ==
            FenceStep(st, line, IsFence(LStrip(line)),
                      IF ReMatches(DASH_RULE_PATTERN, Strip(line)) # None THEN <<HR>>
                      ELSE <<line>>)
    IN FoldLeft(step, FenceInit, lines).out

remove_svg_blocks(lines) ==
    LET \* <svg\b and </svg>   (IGNORECASE)
        SVG_OPEN_PATTERN == Cat(<<Lit(<<"<">>), LitI(<<"s", "v", "g">>), WB>>)
        SVG_CLOSE_PATTERN == Cat(<<Lit(<<"<", "/">>), LitI(<<"s", "v", "g">>), Lit(<<">">>)>>)
        step(st, line) ==
            IF ~st.in_svg /\ ReSearch(SVG_OPEN_PATTERN, line) # None
            THEN [st EXCEPT !.in_svg = TRUE]
            ELSE IF st.in_svg
            THEN [st EXCEPT !.in_svg = ReSearch(SVG_CLOSE_PATTERN, line) = None]
            ELSE [st EXCEPT !.result = Append(st.result, line)]
    IN FoldLeft(step, [in_svg |-> FALSE, result |-> <<>>], lines).result

fix_malformed_links(lines) ==
    LET \* \[\[\]\[(?P<text>[^\]]+)\]\((?P<primary>#[^\)]+)\)\]\((?P<secondary>#[^\)]+)\)
        MALFORMED_LINK_PATTERN ==
            Cat(<<Lit(<<"[", "[", "]", "[">>), Grp("text", Plus(NSet({"]"}))), Lit(<<"]", "(">>),
                  Grp("primary", Cat(<<Lit(<<"#">>), Plus(NSet({")"}))>>)), Lit(<<")", "]", "(">>),
                  Grp("secondary", Cat(<<Lit(<<"#">>), Plus(NSet({")"}))>>)), Lit(<<")">>)>>)
        repl(m) == <<"[">> \o Strip(Group(m, "text")) \o <<"]", "(">> \o Group(m, "primary") \o <<")">>
    IN [i \in 1..Len(lines) |-> ReSubWith(MALFORMED_LINK_PATTERN, repl, lines[i])]

remove_empty_label_links(lines) ==
    LET \* \[\]\s*([^\]]+?)(?=\]\()
        EMPTY_LABEL_LINK_PATTERN ==
            Cat(<<Lit(<<"[", "]">>), Star(ReS), Grp("1", LazyRep(NSet({"]"}), 1, -1)),
                  Ahead(Lit(<<"]", "(">>))>>)
        repl(m) == <<"[">> \o Strip(Group(m, "1")) \o <<"]">>
    IN [i \in 1..Len(lines) |-> ReSubWith(EMPTY_LABEL_LINK_PATTERN, repl, lines[i])]

\* images/(?:(?:images|OEBPS)/)+   (IGNORECASE)
IMAGES_DIR == <<"i", "m", "a", "g", "e", "s", "/">>
REDUNDANT_IMAGE_SEGMENT_PATTERN ==
    Cat(<<LitI(IMAGES_DIR),
          Plus(Cat(<<Alt(<<LitI(<<"i", "m", "a", "g", "e", "s">>), LitI(<<"O", "E", "B", "P", "S">>)>>), Lit(<<"/">>)>>))>>)

rewrite_markdown_image_paths(lines) ==
    LET \* (!\[[^\]]*\]\()([^\)]+)(\))
        MARKDOWN_IMAGE_PATTERN ==
            Cat(<<Grp("1", Cat(<<Lit(<<"!", "[">>), Star(NSet({"]"})), Lit(<<"]", "(">>)>>)),
                  Grp("2", Plus(NSet({")"}))), Grp("3", Lit(<<")">>))>>)
        \* ^images/(?:OEBPS/)+(.+)$
        OEBPS_IMAGE_PATTERN ==
            Cat(<<BOL, Lit(IMAGES_DIR), Plus(Lit(<<"O", "E", "B", "P", "S", "/">>)), Grp("1", Plus(Dot)), EOL>>)
        replacer(m) ==
            Group(m, "1")
            \o ReSubWith(OEBPS_IMAGE_PATTERN, LAMBDA o : IMAGES_DIR \o Group(o, "1"),
                         ReSub(REDUNDANT_IMAGE_SEGMENT_PATTERN, IMAGES_DIR, Group(m, "2")))
            \o Group(m, "3")
    IN [i \in 1..Len(lines) |-> ReSubWith(MARKDOWN_IMAGE_PATTERN, replacer, lines[i])]

bold_uppercase_lines(lines) ==
    LET STARS == <<"*", "*">>
        kept(stripped) ==
            \/ stripped = <<>>
            \/ Head(stripped) \in {"#", "-", "*", "+", ">"}
            \/ StartsWith(stripped, STARS) /\ EndsWith(stripped, STARS) /\ Len(stripped) > 4
            \/ StartsWith(stripped, <<"<">>) /\ EndsWith(stripped, <<">">>)
            \/ StartsWith(stripped, <<BQ>>) /\ EndsWith(stripped, <<BQ>>)
            \/ ~\E i \in 1..Len(stripped) : IsAlpha(stripped[i])
            \/ \E i \in 1..Len(stripped) : IsLowerCh(stripped[i])
        step(st, line) ==
            FenceStep(st, line, IsFence(LStripSpaces(line)),
                      IF kept(Strip(line)) THEN <<line>>
                      ELSE <<SubSeq(line, 1, Len(line) - Len(LStripSpaces(line)))
                             \o STARS \o Strip(line) \o STARS>>)
    IN FoldLeft(step, FenceInit, lines).out

ensure_blank_line_after_hyphen_lists(lines) ==
    LET \* ^\s*-\s+\S
        HYPHEN_BULLET_PATTERN == Cat(<<BOL, Star(ReS), Lit(<<"-">>), Plus(ReS), ReNS>>)
        total == Len(lines)
        \* what follows the line at idx in result, the line being a bullet
        after(idx) ==
            IF idx + 1 > total THEN (IF Strip(lines[idx]) # <<>> THEN <<<<>>>> ELSE <<>>)
            ELSE IF Strip(lines[idx + 1]) = <<>> THEN <<>>
            ELSE IF ReMatches(HYPHEN_BULLET_PATTERN, lines[idx + 1]) # None THEN <<>>
            ELSE IF Strip(lines[idx]) # <<>> THEN <<<<>>>> ELSE <<>>
        step(st, idx) ==
            FenceStep(st, lines[idx], IsFence(LStrip(lines[idx])),
                      <<lines[idx]>>
                      \o (IF ReMatches(HYPHEN_BULLET_PATTERN, lines[idx]) = None THEN <<>>
                          ELSE after(idx)))
    IN FoldLeft(step, FenceInit, [i \in 1..total |-> i]).out

strip_redundant_escapes(lines) ==
    LET \* \\([.!?,:;'])
        REDUNDANT_ESCAPE_PATTERN ==
            Cat(<<Lit(<<"\\">>), Grp("1", CSet({".", "!", "?", ",", ":", ";", "'"}))>>)
        step(st, line) ==
            FenceStep(st, line, IsFence(LStrip(line)),
                      <<ReSubGroup(REDUNDANT_ESCAPE_PATTERN, "1", line)>>)
    IN FoldLeft(step, FenceInit, lines).out

(***************************************************************************)
(* tools/epub_markdown_cleanup.py: class-based styling, Calibre blocks,    *)
(* ISBN and title helpers.                                                 *)
(***************************************************************************)
\* pattern.finditer(s): the matches from left to right, none overlapping.
RECURSIVE FindFrom(_, _, _)
FindFrom(tbl, from, acc) ==
    LET i == FirstMatch(tbl, from) IN
    IF i = 0 THEN acc
    ELSE LET g == tbl[i][1] IN
         IF g.end > g.start THEN FindFrom(tbl, g.end, Append(acc, g))
         ELSE FindFrom(tbl, g.start + 1, Append(acc, g))
ReFindAll(re, s) == FindFrom(MatchTable(re, s), 1, <<>>)

\* A style map gives each class name its set of styles.
parse_class_list(spec0) ==
    LET spec == Strip(spec0)
        \* \.([A-Za-z0-9_-]+)
        DOTTED == Cat(<<Lit(<<".">>),
                        Grp("1", Plus(CSet(Lower \cup Upper \cup Digit \cup {"_", "-"})))>>)
        dotted == ReFindAll(DOTTED, spec)
        words == ReFindAll(Plus(ReNS), spec)       \* spec.split()
    IN IF spec = <<>> THEN <<>>
       ELSE IF Head(spec) = "." THEN [i \in 1..Len(dotted) |-> Group(dotted[i], "1")]
       ELSE [i \in 1..Len(words) |-> words[i].all]

\* aggregate_styles that looks at the first class name alone.
aggregate_styles_first(class_names, style_map) ==
    IF class_names = <<>> THEN {} ELSE DictGet(style_map, class_names[1], {})

aggregate_styles(class_names, style_map) ==
    UNION {DictGet(style_map, class_names[i], {}) : i \in 1..Len(class_names)}

Tagged(tag, inner) == <<"<">> \o tag \o <<">">> \o inner \o <<"<", "/">> \o tag \o <<">">>
apply_inline_styles(text, styles) ==
    LET emphasis == IF "bold" \in styles /\ "italic" \in styles THEN <<"*", "*", "*">>
                    ELSE IF "bold" \in styles THEN <<"*", "*">>
                    ELSE IF "italic" \in styles THEN <<"*">>
                    ELSE <<>>
        inner0 == emphasis \o text \o emphasis
        inner1 == IF "sup" \in styles THEN Tagged(<<"s", "u", "p">>, inner0) ELSE inner0
        inner2 == IF "sub" \in styles THEN Tagged(<<"s", "u", "b">>, inner1) ELSE inner1
    IN IF styles = {} THEN text ELSE inner2

apply_pandoc_class_notation(text, style_map) ==
    LET \* \[([^\]]+)\]\{([^}]+)\}
        INLINE_CLASS_PATTERN ==
            Cat(<<Lit(<<"[">>), Grp("1", Plus(NSet({"]"}))), Lit(<<"]", "{">>),
                  Grp("2", Plus(NSet({"}"}))), Lit(<<"}">>)>>)
        replace(m) ==
            apply_inline_styles(Group(m, "1"),
                                aggregate_styles(parse_class_list(Group(m, "2")), style_map))
    IN ReSubWith(INLINE_CLASS_PATTERN, replace, text)

apply_span_classes(text, style_map) ==
    LET \* <span class=\"([^\"]+)\">(.*?)</span>   (DOTALL)
        SPAN_CLASS_PATTERN ==
            Cat(<<Lit(<<"<", "s", "p", "a", "n", SP, "c", "l", "a", "s", "s", "=", "\"">>), Grp("1", Plus(NSet({"\""}))), Lit(<<"\"", ">">>),
                  Grp("2", LazyRep(DotAll, 0, -1)), Lit(<<"<", "/", "s", "p", "a", "n", ">">>)>>)
        replace(m) ==
            apply_inline_styles(Group(m, "2"),
                                aggregate_styles(parse_class_list(Group(m, "1")), style_map))
    IN ReSubWith(SPAN_CLASS_PATTERN, replace, text)

convert_calibre_blocks(text) ==
    LET Fence4 == Cat(<<Lit(<<":", ":">>), Rep(CSet({":"}), 4, -1)>>)      \* :::{4,}
        \* (?sm)^(?P<indent>[ \t]*):::{4,}\s+calibre\w*\s*\n(?P<body>.*?)
        \*      (?:\n(?P=indent):::{4,}\s*(?:\n|$))
        CALIBRE_CONTAINER_PATTERN ==
            Cat(<<MBOL, Grp("indent", Star(CSet({SP, TAB}))), Fence4, Plus(ReS),
                  Lit(<<"c", "a", "l", "i", "b", "r", "e">>), Star(ReW), Star(ReS), Lit(<<NL>>),
                  Grp("body", LazyRep(DotAll, 0, -1)),
                  Lit(<<NL>>), BackRef("indent"), Fence4, Star(ReS),
                  Alt(<<Lit(<<NL>>), MEOL>>)>>)
        \* :::\s+block_[^\s]+\s*\n(.*?)(?:\n:::\s*(?:\n|$))   (DOTALL)
        CALIBRE_ITEM_PATTERN ==
            Cat(<<Lit(<<":", ":", ":">>), Plus(ReS), Lit(<<"b", "l", "o", "c", "k", "_">>), Plus(ReNS), Star(ReS), Lit(<<NL>>),
                  Grp("1", LazyRep(DotAll, 0, -1)), Lit(<<NL>>), Lit(<<":", ":", ":">>), Star(ReS),
                  Alt(<<Lit(<<NL>>), EOL>>)>>)
        \* ^\s*\[[^\]]*\]\[(?P<text>.*?)\]\s*$   (DOTALL)
        CALIBRE_BULLET_PATTERN ==
            Cat(<<BOL, Star(ReS), Lit(<<"[">>), Star(NSet({"]"})), Lit(<<"]", "[">>),
                  Grp("text", LazyRep(DotAll, 0, -1)), Lit(<<"]">>), Star(ReS), EOL>>)
        \* ^\s*\[[^\]]*\]\s*
        LEADING_BRACKETS ==
            Cat(<<BOL, Star(ReS), Lit(<<"[">>), Star(NSet({"]"})), Lit(<<"]">>), Star(ReS)>>)
        unbracket(c) ==
            IF StartsWith(c, <<"[">>) /\ EndsWith(c, <<"]">>)
            THEN Strip(SubSeq(c, 2, Len(c) - 1)) ELSE c
        cleaned(content) ==
            LET bullet_match == ReMatches(CALIBRE_BULLET_PATTERN, content) IN
            IF bullet_match # None THEN Strip(Group(bullet_match[1], "text"))
            ELSE unbracket(Strip(ReSub(LEADING_BRACKETS, <<>>, content)))
        item_step(indent, items, item_match) ==
            LET c == cleaned(Strip(Group(item_match, "1"))) IN
            IF c # <<>> THEN Append(items, indent \o <<"-", SP>> \o c) ELSE items
        fallback_step(indent, fallback, raw_line) ==
            LET stripped == Strip(raw_line)
                bullet_match == ReMatches(CALIBRE_BULLET_PATTERN, raw_line)
            IN IF stripped = <<>> \/ StartsWith(stripped, <<":", ":", ":">>) THEN fallback
               ELSE IF bullet_match # None THEN
                   (IF Strip(Group(bullet_match[1], "text")) # <<>>
                    THEN Append(fallback, indent \o <<"-", SP>>
                                          \o Strip(Group(bullet_match[1], "text")))
                    ELSE fallback)
               ELSE Append(fallback, indent \o stripped)
        replace(m) ==
            LET indent == Group(m, "indent")
                body == Group(m, "body")
                items == FoldLeft(LAMBDA acc, im : item_step(indent, acc, im), <<>>,
                                  ReFindAll(CALIBRE_ITEM_PATTERN, body))
                fallback == FoldLeft(LAMBDA acc, l : fallback_step(indent, acc, l), <<>>,
                                     SplitLines(body))
            IN IF items # <<>> THEN JoinLines(items) \o <<NL>>
               ELSE IF fallback # <<>> THEN JoinLines(fallback) \o <<NL>>
               ELSE m.all
    IN ReSubWith(CALIBRE_CONTAINER_PATTERN, replace, text)

\* normalize_isbn(raw): None or Some of the 10 or 13 characters.
IsIsbnCh(c) == c \in Digit \cup {"X", "x"}
\* normalize_isbn without the length and shape tests.
normalize_isbn_any_length(raw) ==
    IF SelectSeq(raw, IsIsbnCh) = <<>> THEN None ELSE Some(SelectSeq(raw, IsIsbnCh))

normalize_isbn(raw) ==
    LET cleaned == SelectSeq(raw, IsIsbnCh) IN
    IF raw = <<>> THEN None
    ELSE IF Len(cleaned) = 13 /\ \A i \in 1..13 : cleaned[i] \in Digit THEN Some(cleaned)
    ELSE IF Len(cleaned) = 10 /\ \A i \in 1..9 : cleaned[i] \in Digit
    THEN Some([i \in 1..10 |-> IF cleaned[i] = "x" THEN "X" ELSE cleaned[i]])
    ELSE None

\* The first element of a sequence of Optionals that is not None.
FirstSome(opts) ==
    IF \A i \in 1..Len(opts) : opts[i] = None THEN None
    ELSE opts[CHOOSE i \in 1..Len(opts) : opts[i] # None /\ \A j \in 1..(i - 1) : opts[j] = None]

extract_isbn(text, fallback_identifiers) ==
    LET \* \bISBN(?:-1[03])?:?\s*([0-9][0-9Xx\s-]{8,}[0-9Xx])   (IGNORECASE)
        ISBN_PATTERN ==
            Cat(<<WB, LitI(<<"I", "S", "B", "N">>), Opt(Cat(<<Lit(<<"-", "1">>), CSet({"0", "3"})>>)),
                  Opt(CSet({":"})), Star(ReS),
                  Grp("1", Cat(<<ReD, Rep(CSet(Digit \cup {"X", "x", "-"} \cup WS), 8, -1),
                                 CSet(Digit \cup {"X", "x"})>>))>>)
        found == ReFindAll(ISBN_PATTERN, text)
    IN FirstSome([i \in 1..Len(found) |-> normalize_isbn(Group(found[i], "1"))]
                 \o [i \in 1..Len(fallback_identifiers) |->
                        normalize_isbn(fallback_identifiers[i])])

compute_title_short(title) ==
    LET \* \s*[–—-]\s+
        DASH == Cat(<<Star(ReS), CSet({ENDASH, EMDASH, "-"}), Plus(ReS)>>)
        result0 == Strip(title)
        colon == IndexOf(result0, ":")
        result1 == IF colon > 0 THEN Strip(SubSeq(result0, 1, colon - 1)) ELSE result0
        dash == ReSearch(DASH, result1)
    IN IF title = <<>> THEN <<>>
       ELSE IF dash # None THEN Strip(SubSeq(result1, 1, dash[1].start - 1))
       ELSE result1

trim_title_short(value) == IF value = <<>> THEN <<>> ELSE compute_title_short(value)

(***************************************************************************)
(* tools/epub_markdown_cleanup.py: adjust_headings_and_build_toc and       *)
(* clean_markdown_text.  flatten_image_paths moves image files and leaves  *)
(* the text alone; it has no part in the model.                            *)
(***************************************************************************)
HasKey(d, k) == k \in DOMAIN d.val
IsStr(d, k) == HasKey(d, k) /\ ~d.val[k].is_list
IsList(d, k) == HasKey(d, k) /\ d.val[k].is_list
\* metadata.pop(k)
MetaDel(d, k) ==
    [keys |-> SelectSeq(d.keys, LAMBDA x : x # k),
     val |-> [x \in DOMAIN d.val \ {k} |-> d.val[x]]]

K_TITLE == <<"t", "i", "t", "l", "e">>
K_TITLE_SHORT == <<"t", "i", "t", "l", "e", "_", "s", "h", "o", "r", "t">>
K_ISBN == <<"i", "s", "b", "n">>
K_IDENTIFIER == <<"i", "d", "e", "n", "t", "i", "f", "i", "e", "r">>
ISBN_PREFIX == <<"I", "S", "B", "N", SP>>

\* The body passes of adjust_headings_and_build_toc before demote_headings.
BODY_PASSES == <<"normalize_square_bullets", "strip_part_links", "convert_inline_em_dashes",
                 "strip_non_link_brackets", "remove_empty_brackets", "remove_vestigial_blocks",
                 "convert_dash_rules", "remove_svg_blocks", "fix_malformed_links",
                 "remove_empty_label_links", "rewrite_markdown_image_paths",
                 "bold_uppercase_lines", "ensure_blank_line_after_hyphen_lists",
                 "strip_redundant_escapes">>
\* body_lines = pass(body_lines) for the pass of the given name.
body_pass(body_lines, pass) ==
    CASE pass = "normalize_square_bullets" -> normalize_square_bullets(body_lines)
      [] pass = "strip_part_links" -> strip_part_links(body_lines)
      [] pass = "convert_inline_em_dashes" -> convert_inline_em_dashes(body_lines)
      [] pass = "strip_non_link_brackets" -> strip_non_link_brackets(body_lines)
      [] pass = "remove_empty_brackets" -> remove_empty_brackets(body_lines)
      [] pass = "remove_vestigial_blocks" -> remove_vestigial_blocks(body_lines)
      [] pass = "convert_dash_rules" -> convert_dash_rules(body_lines)
      [] pass = "remove_svg_blocks" -> remove_svg_blocks(body_lines)
      [] pass = "fix_malformed_links" -> fix_malformed_links(body_lines)
      [] pass = "remove_empty_label_links" -> remove_empty_label_links(body_lines)
      [] pass = "rewrite_markdown_image_paths" -> rewrite_markdown_image_paths(body_lines)
      [] pass = "bold_uppercase_lines" -> bold_uppercase_lines(body_lines)
      [] pass = "ensure_blank_line_after_hyphen_lists" ->
             ensure_blank_line_after_hyphen_lists(body_lines)
      [] pass = "strip_redundant_escapes" -> strip_redundant_escapes(body_lines)
body_passes(body_lines) == FoldLeft(body_pass, body_lines, BODY_PASSES)

\* for drop_key in ("contributor", "description"): one round, on the
\* metadata, key order and quoted keys.
drop_metadata_key(st, drop_key) ==
    IF HasKey(st.metadata, drop_key)
    THEN [metadata |-> MetaDel(st.metadata, drop_key),
          order |-> SelectSeq(st.order, LAMBDA x : x # drop_key),
          quoted |-> st.quoted \ {drop_key}]
    ELSE st

\* identifier_candidates of the metadata.
identifier_candidates(m1) ==
    IF IsList(m1, K_IDENTIFIER) THEN MetaGet(m1, K_IDENTIFIER).items
    ELSE IF IsStr(m1, K_IDENTIFIER) THEN <<MetaGet(m1, K_IDENTIFIER).scalar>>
    ELSE <<>>

\* metadata["identifier"] as the "if isbn_value" part sets it.
isbn_identifier(identifiers_raw, is_list, is_str, isbn) ==
    LET tagged == ISBN_PREFIX \o isbn IN
    IF is_list THEN
        (IF isbn \notin Range(identifiers_raw.items)
            /\ tagged \notin Range(identifiers_raw.items)
         THEN Append(identifiers_raw.items, tagged) ELSE identifiers_raw.items)
    ELSE IF is_str /\ identifiers_raw.scalar # <<>> THEN
        (IF identifiers_raw.scalar # isbn /\ identifiers_raw.scalar # tagged
         THEN <<identifiers_raw.scalar, tagged>> ELSE <<identifiers_raw.scalar>>)
    ELSE <<tagged>>

\* The metadata after the "if isbn_value" part.
with_isbn(m1, isbn_value) ==
    IF isbn_value = None THEN m1
    ELSE MetaPut(MetaPut(m1, K_ISBN, ScalarV(isbn_value[1])), K_IDENTIFIER,
                 ListV(isbn_identifier(MetaGet(m1, K_IDENTIFIER), IsList(m1, K_IDENTIFIER),
                                       IsStr(m1, K_IDENTIFIER), isbn_value[1])))

\* The metadata after the title and title_short parts.
with_titles(m2, first_heading_text) ==
    LET has_title == IsStr(m2, K_TITLE) /\ Strip(m2.val[K_TITLE].scalar) # <<>>
        from_heading == ~has_title /\ first_heading_text # None /\ first_heading_text[1] # <<>>
        title_source == IF has_title THEN Strip(m2.val[K_TITLE].scalar)
                        ELSE IF from_heading THEN first_heading_text[1]
                        ELSE <<>>
    IN Bind(IF from_heading THEN MetaPut(m2, K_TITLE, ScalarV(first_heading_text[1])) ELSE m2,
            LAMBDA m3 :
       Bind(MetaGet(m3, K_TITLE_SHORT), LAMBDA short :
       Bind(IF title_source # <<>> /\ short.scalar = <<>> /\ short.items = <<>>
            THEN MetaPut(m3, K_TITLE_SHORT, ScalarV(compute_title_short(title_source)))
            ELSE m3, LAMBDA m4 :
           IF IsStr(m4, K_TITLE_SHORT)
           THEN MetaPut(m4, K_TITLE_SHORT,
                        ScalarV(trim_title_short(m4.val[K_TITLE_SHORT].scalar)))
           ELSE m4)))

\* The "if metadata is not None" part of adjust_headings_and_build_toc:
\* the metadata, key order and quoted keys that are serialized.
update_metadata(parsed, body_lines, first_heading_text) ==
    Bind(FoldLeft(drop_metadata_key, parsed, <<<<"c", "o", "n", "t", "r", "i", "b", "u", "t", "o", "r">>, <<"d", "e", "s", "c", "r", "i", "p", "t", "i", "o", "n">>>>), LAMBDA s1 :
    Bind(extract_isbn(JoinLines(body_lines), identifier_candidates(s1.metadata)),
         LAMBDA from_body :
    Bind(IF from_body = None /\ IsStr(s1.metadata, K_ISBN)
         THEN normalize_isbn(s1.metadata.val[K_ISBN].scalar)
         ELSE from_body, LAMBDA isbn_value :
    Bind(with_titles(with_isbn(s1.metadata, isbn_value), first_heading_text), LAMBDA m5 :
        [metadata |-> m5,
         order |-> s1.order,
         quoted |-> s1.quoted \cup (IF isbn_value = None THEN {} ELSE {K_ISBN})
                    \cup (IF IsStr(m5, K_TITLE_SHORT) THEN {K_TITLE_SHORT} ELSE {})]))))

\* The lines adjust_headings_and_build_toc joins: the front matter lines,
\* the title, the table of contents and the demoted lines.
assemble_lines(front_matter_lines, title_text, toc_lines, r) ==
    LET final_body0 ==
            IF title_text = <<>> THEN <<>>
            ELSE <<RStrip(<<"#", SP>> \o title_text), <<>>>>
                 \o (IF toc_lines # <<>> /\ ~r.replaced THEN toc_lines ELSE <<>>)
        demoted_lines ==
            IF final_body0 # <<>> /\ final_body0[Len(final_body0)] = <<>>
            THEN SubSeq(r.lines, LeadCount(r.lines, LAMBDA l : l = <<>>) + 1, Len(r.lines))
            ELSE r.lines
    IN Bind(final_body0 \o demoted_lines, LAMBDA final_body :
           (IF front_matter_lines # <<>>
            THEN front_matter_lines \o (IF final_body # <<>> THEN <<<<>>>> ELSE <<>>)
            ELSE <<>>)
           \o final_body)

\* metadata.get("title").strip() when the title is a str, else "".
title_of(metadata) ==
    IF IsStr(metadata, K_TITLE) THEN Strip(metadata.val[K_TITLE].scalar) ELSE <<>>

\* title_from_front_matter or metadata_title or first_heading_text
title_text_of(parsed, updated, first_heading_text) ==
    IF parsed # None /\ title_of(parsed[1].metadata) # <<>> THEN title_of(parsed[1].metadata)
    ELSE IF updated # None /\ title_of(updated[1].metadata) # <<>>
    THEN title_of(updated[1].metadata)
    ELSE IF first_heading_text # None THEN first_heading_text[1]
    ELSE <<>>

\* The index the body starts after: 0 without an opening marker, the
\* closing marker's line, or the last line when no marker closes.
body_start_of(lines0) ==
    Bind({i \in 2..Len(lines0) : Strip(lines0[i]) = FM_DASHES}, LAMBDA closers :
        IF Strip(lines0[1]) # FM_DASHES THEN 0
        ELSE IF closers = {} THEN Len(lines0)
        ELSE Min(closers))

\* The end of adjust_headings_and_build_toc, from "if metadata is not None"
\* on: updated is the metadata that is serialized, None without metadata.
adjust_final(front, parsed, updated, d, toc_lines, r) ==
    JoinLines(assemble_lines(
        IF updated # None
        THEN serialize_front_matter(updated[1].metadata, updated[1].order, updated[1].quoted)
        ELSE front,
        title_text_of(parsed, updated, d.first_heading_text),
        toc_lines, r))

\* ... from "toc_lines = build_toc_lines(toc_entries)" on.
adjust_toc(front, parsed, body_lines, d, toc_lines) ==
    adjust_final(front, parsed,
                 IF parsed # None
                 THEN Some(update_metadata(parsed[1], body_lines, d.first_heading_text))
                 ELSE None,
                 d, toc_lines, replace_existing_toc(d.new_lines, toc_lines))

\* ... from "demoted_lines, toc_entries, first_heading_text =
\* demote_headings(body_lines)" on.
adjust_demoted(front, parsed, body_lines, d) ==
    CASE Computed(d) ->
        adjust_toc(front, parsed, body_lines, d, build_toc_lines(d.toc_entries))

adjust_body(front, parsed, body_lines) ==
    CASE Computed(parsed) /\ Computed(body_lines) ->
        adjust_demoted(front, parsed, body_lines, demote_headings(body_lines))

\* ... from the front matter split on: the front matter is the first
\* body_start lines.
adjust_split(lines0, body_start) ==
    adjust_body(SubSeq(lines0, 1, body_start),
                IF Strip(lines0[1]) = FM_DASHES
                THEN parse_front_matter_block(SubSeq(lines0, 1, body_start))
                ELSE None,
                body_passes(SubSeq(lines0, body_start + 1, Len(lines0))))

adjust_lines(text, lines0) ==
    IF lines0 = <<>> THEN text ELSE adjust_split(lines0, body_start_of(lines0))

adjust_headings_and_build_toc(text0) ==
    adjust_lines(ReplaceCh(text0, NBSP, SP), SplitLines(ReplaceCh(text0, NBSP, SP)))

\* (?:[ \t]*\n){3,}
epub_collapse_blank_lines(text) ==
    ReSub(Rep(Cat(<<Star(CSet({SP, TAB})), Lit(<<NL>>)>>), 3, -1), <<NL, NL>>, text)

clean_markdown_text(text0, style_map) ==
    LET \* \s*\{#[^}]+\}
        ANCHOR_PATTERN == Cat(<<Star(ReS), Lit(<<"{", "#">>), Plus(NSet({"}"})), Lit(<<"}">>)>>)
        \* ^\s*\[\s*\]\s*$   (MULTILINE)
        EMPTY_LINK_LINE_PATTERN ==
            Cat(<<MBOL, Star(ReS), Lit(<<"[">>), Star(ReS), Lit(<<"]">>), Star(ReS), MEOL>>)
        \* \[\[(?P<display>[^\]]+?)\]\]\s*\(\s*(?P<target>#[^\)]+)\)
        LEGACY_DOUBLE_LINK_PATTERN ==
            Cat(<<Lit(<<"[", "[">>), Grp("display", LazyRep(NSet({"]"}), 1, -1)), Lit(<<"]", "]">>),
                  Star(ReS), Lit(<<"(">>), Star(ReS),
                  Grp("target", Cat(<<Lit(<<"#">>), Plus(NSet({")"}))>>)), Lit(<<")">>)>>)
        drop_legacy_link(m) ==
            IF \/ StartsWith(ToLower(Group(m, "target")), <<"#", "p", "a", "r", "t">>)
               \/ StartsWith(ToLower(Group(m, "target")), <<"#", "t", "o", "c">>)
            THEN Group(m, "display") ELSE m.all
        \* <!--.*?-->   (DOTALL)
        HTML_COMMENT_PATTERN == Cat(<<Lit(<<"<", "!", "-", "-">>), LazyRep(DotAll, 0, -1), Lit(<<"-", "-", ">">>)>>)
        \* \[\[([^\]]+?)\]\]
        ORPHAN_DOUBLE_BRACKETS_PATTERN ==
            Cat(<<Lit(<<"[", "[">>), Grp("1", LazyRep(NSet({"]"}), 1, -1)), Lit(<<"]", "]">>)>>)
        \* \{\s*(?:\.[A-Za-z0-9_-]+\s*)+\}
        CLASS_ONLY_BRACES_PATTERN ==
            Cat(<<Lit(<<"{">>), Star(ReS),
                  Plus(Cat(<<Lit(<<".">>),
                             Plus(CSet(Lower \cup Upper \cup Digit \cup {"_", "-"})),
                             Star(ReS)>>)),
                  Lit(<<"}">>)>>)
        \* \sclass=\"[^\"]+\"
        CLASS_ATTRIBUTE ==
            Cat(<<ReS, Lit(<<"c", "l", "a", "s", "s", "=", "\"">>), Plus(NSet({"\""})), Lit(<<"\"">>)>>)
        \* [ \t]+\n
        TRAILING_SPACES == Cat(<<Plus(CSet({SP, TAB})), Lit(<<NL>>)>>)
        \* text = stage(text) for each statement of the function, in order.
        stage(text, name) ==
            CASE name = "ANCHOR_PATTERN" -> ReSub(ANCHOR_PATTERN, <<>>, text)
              [] name = "EMPTY_LINK_LINE_PATTERN" -> ReSub(EMPTY_LINK_LINE_PATTERN, <<>>, text)
              [] name = "LEGACY_DOUBLE_LINK_PATTERN" ->
                     ReSubWith(LEGACY_DOUBLE_LINK_PATTERN, drop_legacy_link, text)
              [] name = "HTML_COMMENT_PATTERN" -> ReSub(HTML_COMMENT_PATTERN, <<>>, text)
              [] name = "ORPHAN_DOUBLE_BRACKETS_PATTERN" ->
                     ReSubGroup(ORPHAN_DOUBLE_BRACKETS_PATTERN, "1", text)
              [] name = "apply_pandoc_class_notation" ->
                     apply_pandoc_class_notation(text, style_map)
              [] name = "apply_span_classes" -> apply_span_classes(text, style_map)
              [] name = "convert_calibre_blocks" -> convert_calibre_blocks(text)
              [] name = "adjust_headings_and_build_toc" -> adjust_headings_and_build_toc(text)
              [] name = "CLASS_ONLY_BRACES_PATTERN" ->
                     ReSub(CLASS_ONLY_BRACES_PATTERN, <<>>, text)
              [] name = "class_attribute" -> ReSub(CLASS_ATTRIBUTE, <<>>, text)
              [] name = "collapse_blank_lines" -> epub_collapse_blank_lines(text)
              [] name = "REDUNDANT_IMAGE_SEGMENT_PATTERN" ->
                     ReSub(REDUNDANT_IMAGE_SEGMENT_PATTERN, IMAGES_DIR, text)
              [] name = "trailing_spaces" -> ReSub(TRAILING_SPACES, <<NL>>, text)
              [] name = "strip" -> Strip(text) \o <<NL>>
    IN FoldLeft(stage, text0,
                <<"ANCHOR_PATTERN", "EMPTY_LINK_LINE_PATTERN", "LEGACY_DOUBLE_LINK_PATTERN",
                  "HTML_COMMENT_PATTERN", "ORPHAN_DOUBLE_BRACKETS_PATTERN",
                  "apply_pandoc_class_notation", "apply_span_classes",
                  "convert_calibre_blocks", "adjust_headings_and_build_toc",
                  "CLASS_ONLY_BRACES_PATTERN", "class_attribute", "collapse_blank_lines",
                  "REDUNDANT_IMAGE_SEGMENT_PATTERN", "trailing_spaces", "strip">>)

(***************************************************************************)
(* The state: the Markdown file a tool is run on, and what the last run    *)
(* (process_file) did.                                                     *)
(***************************************************************************)
VARIABLES
    tool,        \* which tool the runs of this behaviour are runs of
    content,     \* the text of the file on disk
    original,    \* process_file's original: the text the last run read
    cleaned,     \* process_file's cleaned: the text the last run produced
    changed,     \* the last run's return value
    dry,         \* the last run's dry_run argument
    runs,        \* the number of runs so far
    writes,      \* the number of runs before the last one that were not dry runs
    lines,       \* the line list a function of the tools is called on
    arg,         \* the other arguments of the call
    fn,          \* the function called on it, "none" before the call
    ret          \* what the call returned

fileVars == <<tool, content, original, cleaned, changed, dry, runs, writes>>
callVars == <<lines, arg, fn, ret>>
vars == <<tool, content, original, cleaned, changed, dry, runs, writes, lines, arg, fn, ret>>

\* The bounds of the model.
MaxLines == 3
MaxRuns == 2

\* All sequences over S of length 0..n.
SeqsUpTo(S, n) == UNION {[1..k -> S] : k \in 0..n}

\* The text of a file holding the given lines, each ended by a line break.
FileOf(ls) == IF ls = <<>> THEN <<>> ELSE JoinLines(ls) \o <<NL>>

PdfLines == {
    <<>>,
    <<"a">>,
    <<"b", "-">>,
    BACKTICKS,
    <<SP, SP, SP, SP, "c">>,
    <<"x", SP, SP, "y", SP>>,
    <<"#", SP, "h">>
}

InitFile(t, Lines) ==
    /\ tool = t
    /\ content \in {FileOf(ls) : ls \in SeqsUpTo(Lines, MaxLines)}
    /\ original = <<>>
    /\ cleaned = <<>>
    /\ changed = FALSE
    /\ dry = FALSE
    /\ runs = 0
    /\ writes = 0
    /\ lines = <<>>
    /\ arg = <<>>
    /\ fn = "none"
    /\ ret = <<>>

\* process_file(path, dry_run) of the tool whose pipeline is out = f(content).
RunTool(out, dry_run) ==
    /\ runs < MaxRuns
    /\ original' = content
    /\ cleaned' = out
    /\ changed' = (out # content)
    /\ content' = IF out # content /\ ~dry_run THEN out ELSE content
    /\ dry' = dry_run
    /\ runs' = runs + 1
    /\ writes' = writes + (IF runs >= 1 /\ ~dry THEN 1 ELSE 0)
    /\ UNCHANGED <<tool, lines, arg, fn, ret>>

PdfProcessFile ==
    /\ tool = "pdf"
    /\ \E dry_run \in BOOLEAN : RunTool(normalise_text(content), dry_run)

InitPdf == InitFile("pdf", PdfLines)
NextPdf == PdfProcessFile
SpecPdf == InitPdf /\ [][NextPdf]_vars

(***************************************************************************)
(* Calls of the heading functions on a line list.                          *)
(***************************************************************************)
HeadingLines == {
    <<"#", SP, "a">>,
    <<"#", "#", SP, "a">>,
    <<"#", "#", SP, "a", "-", "1">>,
    <<"#", "#", "#", SP, "b">>,
    <<"#", SP, SP, "A", SP>>,
    <<"#", SP>>,
    BACKTICKS,
    <<SP>> \o TILDES,
    TOC_HEADING
}

\* No file is involved in a behaviour that calls functions on their own.
NoFile ==
    /\ tool = "none"
    /\ content = <<>>
    /\ original = <<>>
    /\ cleaned = <<>>
    /\ changed = FALSE
    /\ dry = FALSE
    /\ runs = 0
    /\ writes = 0

InitHeadings ==
    /\ lines \in SeqsUpTo(HeadingLines, MaxLines)
    /\ arg = <<>>
    /\ fn = "none"
    /\ ret = <<>>
    /\ NoFile

\* adjust_headings_and_build_toc, lines 786-788: demote_headings,
\* build_toc_lines and replace_existing_toc on the body lines.
EpubDemoteHeadings ==
    /\ fn = "none"
    /\ LET d == demote_headings(lines)
           toc_lines == build_toc_lines(d.toc_entries)
           r == replace_existing_toc(d.new_lines, toc_lines)
       IN ret' = [demoted |-> d.new_lines, toc_entries |-> d.toc_entries,
                  first_heading_text |-> d.first_heading_text, toc_lines |-> toc_lines,
                  new_lines |-> r.lines, toc_replaced |-> r.replaced]
    /\ fn' = "demote_headings"
    /\ UNCHANGED <<lines, arg, fileVars>>

\* toc_rebuilder.rebuild_toc(lines).
TocRebuild ==
    /\ fn = "none"
    /\ LET r == rebuild_toc(lines) IN
       ret' = [toc_entries |-> toc_block_entries(collect_h2_headings(lines)),
               new_lines |-> r.new_lines, changed |-> r.changed]
    /\ fn' = "rebuild_toc"
    /\ UNCHANGED <<lines, arg, fileVars>>

\* The Acrobat cleanup's insert_table_of_contents("\n".join(lines)).
AcrobatInsertToc ==
    /\ fn = "none"
    /\ ret' = [toc_entries |-> acrobat_toc_headings(lines),
               new_lines |-> SplitLines(insert_table_of_contents(JoinLines(lines)))]
    /\ fn' = "insert_table_of_contents"
    /\ UNCHANGED <<lines, arg, fileVars>>

\* toc_rebuilder.rebuild_toc on the lines an earlier rebuild_toc returned.
TocRebuildAgain ==
    /\ fn = "rebuild_toc"
    /\ lines' = ret.new_lines
    /\ LET r == rebuild_toc(ret.new_lines) IN
       ret' = [toc_entries |-> toc_block_entries(collect_h2_headings(ret.new_lines)),
               new_lines |-> r.new_lines, changed |-> r.changed]
    /\ fn' = "rebuild_toc_again"
    /\ UNCHANGED <<arg, fileVars>>

NextHeadings == EpubDemoteHeadings \/ TocRebuild \/ TocRebuildAgain \/ AcrobatInsertToc
SpecHeadings == InitHeadings /\ [][NextHeadings]_vars

(***************************************************************************)
(* The lines strictly between a fence-open line and its matching           *)
(* fence-close line, in order, as the tools' line scanners delimit them: a *)
(* line whose text after leading white space starts with three backquotes  *)
(* or three tildes opens a block or closes the open one.  The lines after  *)
(* an opening line that is never closed are not counted.                   *)
(***************************************************************************)
inside_fence_step(st, line) ==
    IF IsFence(LStrip(line)) THEN
        IF st.in_code_block
        THEN [in_code_block |-> FALSE, inside |-> st.inside \o st.open, open |-> <<>>]
        ELSE [st EXCEPT !.in_code_block = TRUE]
    ELSE IF st.in_code_block THEN [st EXCEPT !.open = Append(@, line)]
    ELSE st
InsideFence(text) ==
    FoldLeft(inside_fence_step,
             [in_code_block |-> FALSE, inside |-> <<>>, open |-> <<>>],
             SplitLines(text)).inside

(***************************************************************************)
(* Claims about tools/pdf_markdown_cleanup.py (SpecPdf).                   *)
(***************************************************************************)
\* C3: the PDF cleanup is a fixed point on its own output: for every input t,
\* normalise_text(normalise_text(t)) = normalise_text(t), and process_file
\* returns False on a file that an earlier run has already cleaned.
C3_PdfFixedPoint ==
    (tool = "pdf" /\ runs >= 1) =>
        /\ normalise_text(cleaned) = cleaned
        /\ (writes >= 1 => ~changed)

\* C6: the PDF cleanup leaves every line inside a fenced code block as it
\* was (trailing white space and runs of blank lines included), in the same
\* order.
C6_PdfFenceContentKept ==
    (tool = "pdf" /\ runs >= 1) => InsideFence(cleaned) = InsideFence(original)

(***************************************************************************)
(* Calls of the front-matter codec: serialize_front_matter on a metadata   *)
(* dict, a key order and a set of quoted keys, parse_front_matter_block on *)
(* the lines it wrote, and serialize_front_matter on what the parse gave.  *)
(***************************************************************************)
MaxItems == 2
FMKeys == {<<"k">>, <<"t">>}
FMScalars == {<<"a">>, <<>>, <<"a", ":", SP, "b">>, <<"a", "\"", "b">>, <<"T", "r", "u", "e">>}
FMItems == {<<"a">>, <<"a", ":", SP, "b">>}
FMValues == {ScalarV(s) : s \in FMScalars} \cup {ListV(l) : l \in SeqsUpTo(FMItems, MaxItems)}
\* The sequences of distinct keys.
KeyOrders == {o \in SeqsUpTo(FMKeys, Cardinality(FMKeys)) : Cardinality(Range(o)) = Len(o)}
FMMetas == {[keys |-> o, val |-> v] : o \in KeyOrders, v \in UNION {[K -> FMValues] : K \in SUBSET FMKeys}}

InitFM ==
    /\ arg \in {[metadata |-> m, order |-> o, quoted |-> q] :
                    m \in {x \in FMMetas : Range(x.keys) = DOMAIN x.val},
                    o \in KeyOrders, q \in SUBSET FMKeys}
    /\ lines = <<>>
    /\ fn = "none"
    /\ ret = <<>>
    /\ NoFile

FmSerialize ==
    /\ fn = "none"
    /\ lines' = serialize_front_matter(arg.metadata, arg.order, arg.quoted)
    /\ fn' = "serialize_front_matter"
    /\ UNCHANGED <<arg, ret, fileVars>>

FmParse ==
    /\ fn = "serialize_front_matter"
    /\ ret' = parse_front_matter_block(lines)
    /\ fn' = "parse_front_matter_block"
    /\ UNCHANGED <<arg, lines, fileVars>>

FmReserialize ==
    /\ fn = "parse_front_matter_block"
    /\ ret # None
    /\ ret' = [parsed |-> ret[1],
               lines |-> serialize_front_matter(ret[1].metadata, ret[1].order, ret[1].quoted)]
    /\ fn' = "reserialize"
    /\ UNCHANGED <<arg, lines, fileVars>>

NextFM == FmSerialize \/ FmParse \/ FmReserialize
SpecFM == InitFM /\ [][NextFM]_vars

(***************************************************************************)
(* Runs of tools/epub_markdown_cleanup.py on a Markdown file.  The files   *)
(* are made of blocks of lines; the style map is what load_style_map reads *)
(* from the style sheets next to the file.                                 *)
(***************************************************************************)
MaxEpubBlocks == 2
EpubBlocks == {
    <<<<"#", SP, "T">>>>,
    <<<<"#", "#", SP, "a">>>>,
    <<<<"t", "e", "x", "t", SP, "[", "x", "]">>>>,
    <<<<"[", "x", "]", "{", ".", "c", "}">>>>,
    <<BACKTICKS, <<"x", SP, "{", "#", "a", "}", SP, "[", SP, "]", SP, "y">>, BACKTICKS>>,
    <<FM_DASHES>>,
    <<FM_DASHES, <<"t", "i", "t", "l", "e", ":", SP, "T">>, FM_DASHES>>,
    <<<<>>>>,
    <<<<"-", SP, "i", "t", "e", "m">>>>
}
StyleMaps == {EmptyDict, DictPut(EmptyDict, <<"c">>, {"bold"})}

\* The lines of a sequence of blocks.
RECURSIVE Flatten(_)
Flatten(blocks) == IF blocks = <<>> THEN <<>> ELSE Head(blocks) \o Flatten(Tail(blocks))

InitEpub ==
    /\ tool = "epub"
    /\ content \in {FileOf(Flatten(bs)) : bs \in SeqsUpTo(EpubBlocks, MaxEpubBlocks)}
    /\ arg \in StyleMaps
    /\ original = <<>>
    /\ cleaned = <<>>
    /\ changed = FALSE
    /\ dry = FALSE
    /\ runs = 0
    /\ writes = 0
    /\ lines = <<>>
    /\ fn = "none"
    /\ ret = <<>>

\* process_file(path, dry_run): style_map is the value of load_style_map(path).
EpubProcessFile ==
    /\ tool = "epub"
    /\ \E dry_run \in BOOLEAN : RunTool(clean_markdown_text(content, arg), dry_run)

NextEpub == EpubProcessFile
SpecEpub == InitEpub /\ [][NextEpub]_vars

(***************************************************************************)
(* Claims about the heading functions (SpecHeadings).                      *)
(***************************************************************************)
\* C4: within one document all assigned slugs are pairwise distinct, for
\* the slugs of demote_headings, of toc_rebuilder's build_toc_block and of
\* the Acrobat cleanup's insert_table_of_contents.
C4_SlugsDistinct ==
    fn # "none" =>
        \A i, j \in 1..Len(ret.toc_entries) :
            i # j => ret.toc_entries[i][2] # ret.toc_entries[j][2]

\* Whether line i of ls is a fence marker, and whether it lies inside a
\* fence (an odd number of fence markers precede it).
IsFenceMarker(line) == IsFence(Strip(line))
InsideFenceAt(ls, i) ==
    ~IsFenceMarker(ls[i])
    /\ Cardinality({j \in 1..(i - 1) : IsFenceMarker(ls[j])}) % 2 = 1

\* The last place in s where p occurs, 0 when it does not.
LastIndexOf(s, p) ==
    LET at == {i \in 1..(Len(s) - Len(p) + 1) : SubSeq(s, i, i + Len(p) - 1) = p} IN
    IF at = {} THEN 0 ELSE CHOOSE i \in at : \A j \in at : j <= i

\* The anchor id attached to a heading line ("... {#id}"), and the link
\* target of a list item ("- [text](#id)"); None when there is none.
AnchorOf(line) ==
    LET p == LastIndexOf(line, <<SP, "{", "#">>) IN
    IF p > 0 /\ EndsWith(line, <<"}">>) THEN Some(SubSeq(line, p + 3, Len(line) - 1))
    ELSE None
LinkTargetOf(line) ==
    LET p == LastIndexOf(line, <<"]", "(", "#">>) IN
    IF p > 0 /\ EndsWith(line, <<")">>) THEN Some(SubSeq(line, p + 3, Len(line) - 1))
    ELSE None

\* The level-2 headings outside fences, other than a table-of-contents
\* heading, of a demoted body: their line numbers in document order.
IsListItem(line) == StartsWith(line, <<"-", SP, "[">>)
SeqOfSet(S) ==
    [k \in 1..Cardinality(S) |-> CHOOSE i \in S : Cardinality({j \in S : j < i}) = k - 1]
H2Lines(ls) ==
    SeqOfSet({i \in 1..Len(ls) :
        /\ ~IsFenceMarker(ls[i]) /\ ~InsideFenceAt(ls, i)
        /\ HeadingLevel(ls[i]) = 2 /\ ~IsEpubTocHeading(ls[i])})
ItemLines(ls) == SeqOfSet({i \in 1..Len(ls) : IsListItem(ls[i])})

\* C5: when the demoted body has N level-2 headings outside code fences
\* other than the table-of-contents heading (as demote_headings names it:
\* lower-cased and without trailing colons, "table of contents" or "table
\* of content"), the TOC of build_toc_lines has exactly N list items, in
\* document order, and the i-th item links to the anchor id attached to the
\* i-th such heading.
C5_TocMatchesHeadings ==
    fn = "demote_headings" =>
        LET h == H2Lines(ret.demoted)
            t == ItemLines(ret.toc_lines)
        IN /\ Len(t) = Len(h)
           /\ \A i \in 1..Len(h) :
                  /\ AnchorOf(ret.demoted[h[i]]) # None
                  /\ LinkTargetOf(ret.toc_lines[t[i]]) = AnchorOf(ret.demoted[h[i]])

\* Two headings with the same text, a table-of-contents heading and a
\* heading inside a fence, so that N is smaller than the number of heading
\* lines and the second slug carries a suffix.
C5_Witness ==
    /\ fn = "demote_headings"
    /\ Len(ret.toc_entries) = 2
    /\ ret.toc_entries[1][1] = ret.toc_entries[2][1]
    /\ ret.toc_entries[1][2] # ret.toc_entries[2][2]
    /\ Len(H2Lines(ret.demoted)) = 2
    /\ Len(lines) = 3

\* C8: demote_headings is a two-state scanner toggled by every line whose
\* stripped text starts with three backquotes or tildes: a heading line
\* outside a fence comes out at level 2 if it was level 1 and at its own
\* level otherwise, its text kept; a line inside a fence is copied as it is
\* and adds no TOC entry and no slug.
C8_DemoteScanner ==
    fn = "demote_headings" =>
        /\ Len(ret.demoted) = Len(lines)
        /\ \A i \in 1..Len(lines) :
              IF IsFenceMarker(lines[i]) \/ InsideFenceAt(lines, i)
              THEN ret.demoted[i] = lines[i]
              ELSE HeadingLevel(lines[i]) > 0 =>
                  LET level == HeadingLevel(lines[i])
                      text == Strip(HeadingGroup2(lines[i]))
                      out == ret.demoted[i]
                      base == RStrip(Hashes(IF level = 1 THEN 2 ELSE level) \o <<SP>> \o text)
                  IN /\ LeadCount(out, IsHash) = (IF level = 1 THEN 2 ELSE level)
                     /\ \/ out = base
                        \/ /\ AnchorOf(out) # None
                           /\ out = base \o <<SP, "{", "#">> \o AnchorOf(out)[1] \o <<"}">>
        /\ Len(ret.toc_entries)
             <= Cardinality({i \in 1..Len(lines) :
                    /\ ~IsFenceMarker(lines[i]) /\ ~InsideFenceAt(lines, i)
                    /\ HeadingLevel(lines[i]) > 0})

\* A level-1 heading outside a fence is demoted while the same heading
\* inside a fence is left alone.
C8_Witness ==
    /\ fn = "demote_headings"
    /\ \E i, j \in 1..Len(lines) :
          /\ InsideFenceAt(lines, i) /\ HeadingLevel(lines[i]) = 1
          /\ ~InsideFenceAt(lines, j) /\ HeadingLevel(lines[j]) = 1
          /\ ret.demoted[i] = lines[i]
          /\ HeadingLevel(ret.demoted[j]) = 2

(***************************************************************************)
(* Claims about the front-matter codec (SpecFM).                           *)
(***************************************************************************)
\* C9: front-matter round trip: for S = serialize_front_matter(metadata,
\* order, quoted), parse_front_matter_block(S) succeeds and serializing the
\* parsed metadata, order and quoted set gives exactly S again.
C9_RoundTrip ==
    /\ fn = "parse_front_matter_block" => ret # None
    /\ fn = "reserialize" => ret.lines = lines

(***************************************************************************)
(* Claims about tools/epub_markdown_cleanup.py's pipeline (SpecEpub).      *)
(***************************************************************************)
\* C1: the EPUB cleanup is a fixed point on its own output: for every text t
\* and style map m, clean_markdown_text(clean_markdown_text(t, m), m) =
\* clean_markdown_text(t, m), so a run on a file that an earlier run wrote
\* changes nothing.
C1_EpubFixedPoint ==
    (tool = "epub" /\ writes >= 1) => ~changed

\* C7: no stripping pass of the EPUB cleanup changes a line that lies
\* strictly inside a fenced code block.
C7_EpubFenceContentKept ==
    (tool = "epub" /\ runs >= 1) => InsideFence(cleaned) = InsideFence(original)

\* Front matter that opens on the first line and is never closed.
IsUnterminated(ls) ==
    /\ ls # <<>>
    /\ Strip(ls[1]) = FM_DASHES
    /\ \A i \in 2..Len(ls) : Strip(ls[i]) # FM_DASHES

\* C10: a document whose first line is the front-matter marker and that has
\* no closing marker is body as a whole: its lines go through the body
\* passes, so a heading among them is demoted and listed in a synthesized
\* table of contents.
C10_UnterminatedIsBody ==
    (/\ tool = "epub"
     /\ runs >= 1
     /\ IsUnterminated(SplitLines(original))
     /\ \E i \in 1..Len(SplitLines(original)) : HeadingLevel(SplitLines(original)[i]) > 0)
    => \E i \in 1..Len(SplitLines(cleaned)) : SplitLines(cleaned)[i] = TOC_HEADING

(***************************************************************************)
(* Calls of pdf_markdown_cleanup's unwrap_paragraphs and                   *)
(* combine_paragraph_lines on lists of lines (SpecReflow).                 *)
(***************************************************************************)
ReflowLines == {
    <<>>,
    <<"T", "h", "e", SP, "c", "a", "t">>,
    <<SP, "o", "n", SP>>,
    <<"e", "x", "-">>,
    <<"a", "-", "-">>,
    <<"-", SP, "x">>,
    <<"#", SP, "h">>,
    <<">", SP, "q">>,
    <<"|", "c", "|">>,
    <<"<", "p", ">">>,
    <<"-", "-", "-">>,
    <<SP, SP, SP, SP, "c">>,
    BACKTICKS
}

InitReflow ==
    /\ lines \in SeqsUpTo(ReflowLines, MaxLines)
    /\ arg = <<>>
    /\ fn = "none"
    /\ ret = <<>>
    /\ NoFile

UnwrapParagraphs ==
    /\ fn = "none"
    /\ ret' = unwrap_paragraphs(lines)
    /\ fn' = "unwrap_paragraphs"
    /\ UNCHANGED <<lines, arg, fileVars>>

CombineParagraphLines ==
    /\ fn = "none"
    /\ ret' = combine_paragraph_lines(lines)
    /\ fn' = "combine_paragraph_lines"
    /\ UNCHANGED <<lines, arg, fileVars>>

NextReflow == UnwrapParagraphs \/ CombineParagraphLines
SpecReflow == InitReflow /\ [][NextReflow]_vars

\* Line i of ls is a paragraph candidate outside a fence.
ReflowCandidate(ls, i) ==
    /\ ~IsFenceMarker(ls[i])
    /\ ~InsideFenceAt(ls, i)
    /\ is_paragraph_candidate(RStrip(ls[i]))

\* The last line of the maximal run of candidates that holds line i.
RunEnd(ls, i) ==
    CHOOSE j \in i..Len(ls) :
        /\ \A k \in i..j : ReflowCandidate(ls, k)
        /\ (j = Len(ls) \/ ~ReflowCandidate(ls, j + 1))

\* The lines a unit of the output starts at: the first line of each maximal
\* run of candidates, and each other line that is not blank.
UnitHeads(ls) ==
    SeqOfSet({i \in 1..Len(ls) :
        IF ReflowCandidate(ls, i) THEN i = 1 \/ ~ReflowCandidate(ls, i - 1)
        ELSE Strip(ls[i]) # <<>>})

RECURSIVE ConcatAll(_)
ConcatAll(ss) == IF ss = <<>> THEN <<>> ELSE Head(ss) \o ConcatAll(Tail(ss))

\* A run as one line, fragment by fragment: what fragment k contributes
\* depends on how it ends.
JoinedBy(Piece(_), frags) ==
    ConcatAll([k \in 1..Len(frags) |->
        IF k = Len(frags) THEN frags[k] ELSE Piece(frags[k])])

\* As the claim words it: nothing is put after a fragment that ends in a
\* hyphen, one space after any other.
PieceHyphenKept(frag) == IF EndsWith(frag, <<"-">>) THEN frag ELSE frag \o <<SP>>

\* De-hyphenation: a fragment that ends in one hyphen (not two) loses it and
\* nothing is put after it; one space is put after any other.
PieceDehyphenated(frag) ==
    IF EndsWith(frag, <<"-">>) /\ ~EndsWith(frag, <<"-", "-">>)
    THEN SubSeq(frag, 1, Len(frag) - 1)
    ELSE frag \o <<SP>>

\* The lines of the output that are not blank, as the reflow rule gives them.
Reflowed(Piece(_), ls) ==
    [u \in 1..Len(UnitHeads(ls)) |->
        IF ReflowCandidate(ls, UnitHeads(ls)[u])
        THEN JoinedBy(Piece, [k \in 1..(RunEnd(ls, UnitHeads(ls)[u]) - UnitHeads(ls)[u] + 1) |->
                                  Strip(ls[UnitHeads(ls)[u] + k - 1])])
        ELSE RStrip(ls[UnitHeads(ls)[u]])]

NonBlank(ls) == SelectSeq(ls, LAMBDA l : l # <<>>)

\* C19 as worded: every maximal run of consecutive candidate lines outside a
\* fence is emitted as one line built from the trimmed fragments, a fragment
\* being appended with no inserted space when the text so far ends in a
\* hyphen and with exactly one space otherwise; no other line is joined to a
\* neighbour.
C19_ReflowHyphenKept ==
    fn = "unwrap_paragraphs" => NonBlank(ret) = Reflowed(PieceHyphenKept, lines)

\* C19, amended: ... a fragment is appended with no inserted space, and the
\* hyphen dropped, when the text so far ends in exactly one hyphen, and with
\* exactly one space otherwise (also after a double hyphen).
C19_Reflow ==
    fn = "unwrap_paragraphs" => NonBlank(ret) = Reflowed(PieceDehyphenated, lines)

C19_Witness ==
    /\ fn = "unwrap_paragraphs"
    /\ Len(lines) = 3
    /\ \A i \in 1..3 : ReflowCandidate(lines, i)
    /\ EndsWith(lines[1], <<"-", "-">>)
    /\ EndsWith(lines[2], <<"x", "-">>)
    /\ Len(ret) = 1

(***************************************************************************)
(* Claims about toc_rebuilder.rebuild_toc called twice (SpecHeadings).     *)
(***************************************************************************)
\* C16: rebuild_toc is idempotent: for every list of lines L, with
\* (L1, _) = rebuild_toc(L), rebuild_toc(L1) returns (L1, False); a second
\* run deletes no line the first run left after the inserted block.
C16_RebuildTocIdempotent ==
    fn = "rebuild_toc_again" => (ret.new_lines = lines /\ ~ret.changed)

(***************************************************************************)
(* Claims about the EPUB cleanup's replace_existing_toc (SpecHeadings).    *)
(***************************************************************************)
\* The first table-of-contents heading of ls, and the first heading of level
\* 1 or 2 after line start (the line after the last when there is none).
FirstTocHeading(ls) ==
    CHOOSE i \in 1..Len(ls) :
        IsEpubTocHeading(ls[i]) /\ \A j \in 1..(i - 1) : ~IsEpubTocHeading(ls[j])
NextSectionAfter(ls, start) ==
    IF \E i \in (start + 1)..Len(ls) : HeadingLevel(ls[i]) \in {1, 2}
    THEN CHOOSE i \in (start + 1)..Len(ls) :
             /\ HeadingLevel(ls[i]) \in {1, 2}
             /\ \A j \in (start + 1)..(i - 1) : HeadingLevel(ls[j]) \notin {1, 2}
    ELSE Len(ls) + 1

\* C17: when a level-2 "Table of Contents" heading exists,
\* replace_existing_toc replaces it and every line up to (not including) the
\* next level-2 or level-1 heading with the new block: deeper headings of
\* the old body do not survive, and the lines from that next heading on are
\* unchanged.
C17_ReplaceWholeTocBody ==
    (/\ fn = "demote_headings"
     /\ ret.toc_lines # <<>>
     /\ \E i \in 1..Len(ret.demoted) : IsEpubTocHeading(ret.demoted[i]))
    => /\ ret.toc_replaced
       /\ ret.new_lines =
            SubSeq(ret.demoted, 1, FirstTocHeading(ret.demoted) - 1)
            \o ret.toc_lines
            \o SubSeq(ret.demoted,
                      NextSectionAfter(ret.demoted, FirstTocHeading(ret.demoted)),
                      Len(ret.demoted))

(***************************************************************************)
(* Calls of the EPUB cleanup's adjust_headings_and_build_toc on a text     *)
(* (SpecAdjust): arg is the front matter block, lines the lines after it.  *)
(***************************************************************************)
AdjustLines == {
    <<"#", SP, "a">>,
    <<"#", SP>>,
    <<"#", "#", "#", SP, "b">>,
    <<"t", "e", "x", "t">>,
    BACKTICKS,
    TOC_HEADING
}
AdjustFrontMatter == {<<>>, <<FM_DASHES, <<"t", "i", "t", "l", "e", ":", SP, "T">>, FM_DASHES>>}

InitAdjust ==
    /\ lines \in SeqsUpTo(AdjustLines, MaxLines)
    /\ arg \in AdjustFrontMatter
    /\ fn = "none"
    /\ ret = <<>>
    /\ NoFile

\* toc_entries is the list demote_headings returns inside the call.
AdjustHeadingsAndBuildToc ==
    /\ fn = "none"
    /\ ret' = [out |-> SplitLines(adjust_headings_and_build_toc(JoinLines(arg \o lines))),
               toc_entries |-> demote_headings(body_passes(lines)).toc_entries]
    /\ fn' = "adjust_headings_and_build_toc"
    /\ UNCHANGED <<lines, arg, fileVars>>

NextAdjust == AdjustHeadingsAndBuildToc
SpecAdjust == InitAdjust /\ [][NextAdjust]_vars

\* The headings of a level outside fences, and the table-of-contents
\* headings outside fences, by line number.
HeadingsAt(ls, level) ==
    {i \in 1..Len(ls) :
        ~IsFenceMarker(ls[i]) /\ ~InsideFenceAt(ls, i) /\ HeadingLevel(ls[i]) = level}
TocHeadingsOf(ls) == {i \in HeadingsAt(ls, 2) : IsEpubTocHeading(ls[i])}

\* The first line after the front matter block and the blank line that
\* follows it; line 1 without front matter.
FirstBodyLine(ls) ==
    IF ls # <<>> /\ ls[1] = FM_DASHES /\ \E i \in 2..Len(ls) : ls[i] = FM_DASHES
    THEN Min({i \in 2..Len(ls) : ls[i] = FM_DASHES}) + 2
    ELSE 1

\* C18: the output of adjust_headings_and_build_toc has, outside fences, at
\* most one level-1 heading, which is the first body line (right after the
\* front matter block if there is one); and whenever a TOC entry was
\* recorded it has exactly one level-2 "Table of Contents" heading.
C18_OneTitleOneToc ==
    fn = "adjust_headings_and_build_toc" =>
        /\ Cardinality(HeadingsAt(ret.out, 1)) <= 1
        /\ \A i \in HeadingsAt(ret.out, 1) : i = FirstBodyLine(ret.out)
        /\ (ret.toc_entries # <<>> => Cardinality(TocHeadingsOf(ret.out)) = 1)

(***************************************************************************)
(* Calls of the EPUB cleanup's normalize_isbn and extract_isbn, and of the *)
(* metadata update of adjust_headings_and_build_toc (SpecIsbn): arg.raw is *)
(* a raw token, arg.key the metadata key it is stored under ("" for none), *)
(* lines the body lines.                                                   *)
(***************************************************************************)
MaxIsbnLines == 1
DIGITS9 == <<"0", "3", "0", "6", "4", "0", "6", "1", "5">>
ISBN13 == <<"9", "7", "8", "-", "0", "-", "1", "3", "-", "4", "6", "8", "5", "9", "9", "-", "1">>
ISBN_EXAMPLE == <<"I", "S", "B", "N", ":", SP>> \o ISBN13
IsbnPrefixes == {<<>>, <<"I", "S", "B", "N", SP>>, <<"x">>}
IsbnCores == {DIGITS9, SubSeq(ISBN13, 1, 15), <<"1", "2">>}
IsbnSuffixes == {<<>>, <<"2">>, <<"X">>, <<"x">>, <<"-", "1">>, <<"1", "2", "3", "4">>}
IsbnRaws == {p \o c \o t : p \in IsbnPrefixes, c \in IsbnCores, t \in IsbnSuffixes}
IsbnBodyLines == {
    ISBN_EXAMPLE,
    <<"t", "e", "x", "t">>,
    <<"i", "s", "b", "n", SP>> \o DIGITS9 \o <<"x">>,
    <<"I", "S", "B", "N", "-", "1", "0", ":", SP>> \o DIGITS9 \o <<"2", SP, "2", "0", "2", "0">>
}

InitIsbn ==
    /\ lines \in SeqsUpTo(IsbnBodyLines, MaxIsbnLines)
    /\ arg \in {[raw |-> r, key |-> k] : r \in IsbnRaws, k \in {<<>>, K_ISBN, K_IDENTIFIER}}
    /\ fn = "none"
    /\ ret = <<>>
    /\ NoFile

NormalizeIsbn ==
    /\ fn = "none"
    /\ ret' = normalize_isbn(arg.raw)
    /\ fn' = "normalize_isbn"
    /\ UNCHANGED <<lines, arg, fileVars>>

ExtractIsbn ==
    /\ fn = "none"
    /\ ret' = extract_isbn(JoinLines(lines), IF arg.key = <<>> THEN <<>> ELSE <<arg.raw>>)
    /\ fn' = "extract_isbn"
    /\ UNCHANGED <<lines, arg, fileVars>>

\* The metadata the front matter gave: the raw token under its key.
IsbnMetadata(a) ==
    IF a.key = <<>> THEN EmptyMeta ELSE MetaPut(EmptyMeta, a.key, ScalarV(a.raw))

\* adjust_headings_and_build_toc, lines 792-836, on that metadata.
UpdateMetadata ==
    /\ fn = "none"
    /\ ret' = update_metadata([metadata |-> IsbnMetadata(arg),
                               order |-> IsbnMetadata(arg).keys, quoted |-> {}],
                              lines, None).metadata
    /\ fn' = "update_metadata"
    /\ UNCHANGED <<lines, arg, fileVars>>

NextIsbn == NormalizeIsbn \/ ExtractIsbn \/ UpdateMetadata
SpecIsbn == InitIsbn /\ [][NextIsbn]_vars

\* 13 digits, or 9 digits and then a digit or an upper-case X.
IsIsbnForm(v) ==
    \/ Len(v) = 13 /\ \A i \in 1..13 : v[i] \in Digit
    \/ Len(v) = 10 /\ (\A i \in 1..9 : v[i] \in Digit) /\ v[10] \in Digit \cup {"X"}

\* The token without every character other than digits and the letter X,
\* the letter in upper case.
DigitsAndX(raw) ==
    [i \in 1..Len(SelectSeq(raw, LAMBDA c : c \in Digit \cup {"X", "x"})) |->
        IF SelectSeq(raw, LAMBDA c : c \in Digit \cup {"X", "x"})[i] \in Digit
        THEN SelectSeq(raw, LAMBDA c : c \in Digit \cup {"X", "x"})[i]
        ELSE "X"]

SkipPattern(name) ==
    CASE name = "number" -> Cat(<<BOL, Plus(ReD), EOL>>)                 \* ^\d+$
      [] name = "page" ->                               \* ^page\s+\d+(\s*/\s*\d+)?$
            Cat(<<BOL, LitI(<<"p", "a", "g", "e">>), Plus(ReS), Plus(ReD),
                  Opt(Cat(<<Star(ReS), Lit(<<"/">>), Star(ReS), Plus(ReD)>>)), EOL>>)
      [] name = "ratio" ->                                       \* ^\d+\s*/\s*\d+$
            Cat(<<BOL, Plus(ReD), Star(ReS), Lit(<<"/">>), Star(ReS), Plus(ReD), EOL>>)
      [] name = "isbn" ->                                              \* ^isbn\b.*$
            Cat(<<BOL, LitI(<<"i", "s", "b", "n">>), WB, Star(Dot), EOL>>)
      [] name = "draft" -> LitI(<<"d", "r", "a", "f", "t">>)
DEFAULT_SKIP_PATTERNS == <<"number", "page", "ratio", "isbn">>

should_skip_text(text, patterns) ==
    \/ Strip(text) = <<>>
    \/ \E i \in 1..Len(patterns) : ReSearch(SkipPattern(patterns[i]), Strip(text)) # None

\* read_line that tests the bottom margin before the top margin.
read_line_footer_first(st, line) ==
    LET text == Strip(line.text) IN
    IF text = <<>> THEN st
    ELSE IF line.y0 <= st.config.margin_bottom THEN
        [st EXCEPT !.footer_counts = DictPut(@, text, DictGet(@, text, 0) + 1),
                   !.page_entries = Append(@, <<text, "footer">>)]
    ELSE IF st.page_height - line.y1 <= st.config.margin_top THEN
        [st EXCEPT !.header_counts = DictPut(@, text, DictGet(@, text, 0) + 1),
                   !.page_entries = Append(@, <<text, "header">>)]
    ELSE [st EXCEPT !.page_entries = Append(@, <<text, "body">>)]

\* The first loop of collect_text_lines, one text line: st holds the
\* counters, the entries of the page so far, the page height and the config.
read_line(st, line) ==
    LET text == Strip(line.text) IN
    IF text = <<>> THEN st
    ELSE IF st.page_height - line.y1 <= st.config.margin_top THEN
        [st EXCEPT !.header_counts = DictPut(@, text, DictGet(@, text, 0) + 1),
                   !.page_entries = Append(@, <<text, "header">>)]
    ELSE IF line.y0 <= st.config.margin_bottom THEN
        [st EXCEPT !.footer_counts = DictPut(@, text, DictGet(@, text, 0) + 1),
                   !.page_entries = Append(@, <<text, "footer">>)]
    ELSE [st EXCEPT !.page_entries = Append(@, <<text, "body">>)]

\* The first loop, one page.
read_page(st, page_layout) ==
    LET st1 == FoldLeft(read_line,
                        [st EXCEPT !.total_pages = @ + 1,
                                   !.page_height = IF page_layout.height = None THEN 792
                                                   ELSE page_layout.height[1],
                                   !.page_entries = <<>>],
                        page_layout.lines)
    IN [st1 EXCEPT !.pages = Append(@, st1.page_entries)]

\* The state before the first page is read.
read_init(config) ==
    [pages |-> <<>>, header_counts |-> EmptyDict, footer_counts |-> EmptyDict,
     total_pages |-> 0, page_height |-> 0, page_entries |-> <<>>, config |-> config]

Max(a, b) == IF a >= b THEN a ELSE b

\* min_repeating after the first loop.
min_repeating_of(config, total_pages) ==
    IF config.min_repeating <= 0 THEN Max(2, total_pages \div 3) ELSE config.min_repeating

\* Only the texts counted more often than the threshold are dropped.
drop_set_above(counts, min_repeating) ==
    {text \in DOMAIN counts : counts[text] > min_repeating}

\* header_drop and footer_drop.
drop_set(counts, min_repeating) ==
    {text \in DOMAIN counts : counts[text] >= min_repeating}

\* An entry is dropped when its text is in either drop set.
keep_entry_any_region(entry, header_drop, footer_drop, patterns) ==
    /\ entry[1] \notin header_drop \cup footer_drop
    /\ ~should_skip_text(entry[1], patterns)

\* The second loop: whether an entry's text goes to page_lines.
keep_entry(entry, header_drop, footer_drop, patterns) ==
    /\ ~(entry[2] = "header" /\ entry[1] \in header_drop)
    /\ ~(entry[2] = "footer" /\ entry[1] \in footer_drop)
    /\ ~should_skip_text(entry[1], patterns)

page_lines_of(entries, header_drop, footer_drop, patterns) ==
    [i \in 1..Len(SelectSeq(entries, LAMBDA e : keep_entry(e, header_drop, footer_drop, patterns)))
        |-> SelectSeq(entries, LAMBDA e : keep_entry(e, header_drop, footer_drop, patterns))[i][1]]

\* The second loop, one page, once its page_lines are known.
emit_page(output_lines, page_lines) ==
    IF page_lines = <<>> THEN output_lines
    ELSE (IF output_lines # <<>> /\ output_lines[Len(output_lines)] # <<>>
          THEN Append(output_lines, <<>>) ELSE output_lines) \o page_lines

\* "Normalize consecutive blank lines", one line.
normalize_blank_step(normalized, line) ==
    IF line = <<>> /\ normalized # <<>> /\ normalized[Len(normalized)] = <<>>
    THEN normalized ELSE Append(normalized, line)

end_with_blank(normalized) ==
    IF normalized # <<>> /\ normalized[Len(normalized)] # <<>>
    THEN Append(normalized, <<>>) ELSE normalized

\* collect_text_lines from "min_repeating = config.min_repeating" on.
collect_output(st, min_repeating) ==
    end_with_blank(FoldLeft(normalize_blank_step, <<>>,
        FoldLeft(LAMBDA output_lines, entries :
                     emit_page(output_lines,
                               page_lines_of(entries,
                                             drop_set(st.header_counts, min_repeating),
                                             drop_set(st.footer_counts, min_repeating),
                                             st.config.skip_patterns)),
                 <<>>, st.pages)))

collect_text_lines(pdf_pages, config) ==
    collect_output(FoldLeft(read_page, read_init(config), pdf_pages),
                   min_repeating_of(config, Len(pdf_pages)))

(***************************************************************************)
(* Runs of collect_text_lines (SpecCollect): arg is the PDF (its page      *)
(* layouts) and the config, ret the local variables of the call.  The      *)
(* first loop reads one page per step; the rest of the function is one     *)
(* step.                                                                   *)
(***************************************************************************)
MaxCopies == 7
MaxFew == 2

TextLine(text, y1, y0) == [text |-> text, y1 |-> y1, y0 |-> y0]
AtTop(text) == TextLine(text \o <<NL>>, 95, 93)
AtMiddle(text) == TextLine(text \o <<NL>>, 50, 48)
AtBottom(text) == TextLine(text \o <<NL>>, 5, 3)
PageLayout(ls) == [height |-> Some(100), lines |-> ls]

PdfPageKinds == {
    PageLayout(<<AtTop(<<"H">>), AtMiddle(<<"a">>), AtBottom(<<"F">>)>>),
    PageLayout(<<AtTop(<<"F">>), AtMiddle(<<"7">>), AtBottom(<<"H">>)>>),
    PageLayout(<<AtMiddle(<<"H">>), AtMiddle(<<SP>>), AtMiddle(<<"F">>)>>),
    PageLayout(<<AtMiddle(<<"b">>), AtBottom(<<"P", "a", "g", "e", SP, "2">>), AtBottom(<<"F">>)>>),
    PageLayout(<<>>),
    [height |-> None, lines |-> <<TextLine(<<"H", NL>>, 790, 780), TextLine(<<"c", NL>>, 95, 93)>>]
}
Copies(page, k) == [i \in 1..k |-> page]
\* A document: up to MaxCopies pages of one kind, then up to MaxFew pages of
\* another.
PdfDocuments ==
    {Copies(p, j) \o Copies(q, k) :
        p \in PdfPageKinds, q \in PdfPageKinds, j \in 0..MaxCopies, k \in 0..MaxFew}
PdfConfigs ==
    {[margin_top |-> 10, margin_bottom |-> 10, min_repeating |-> m, skip_patterns |-> sp] :
        m \in {0, 1, 3}, sp \in {<<>>, DEFAULT_SKIP_PATTERNS}}

InitCollect ==
    /\ arg \in {[pages |-> d, config |-> c] : d \in PdfDocuments, c \in PdfConfigs}
    /\ lines = <<>>
    /\ fn = "none"
    /\ ret = <<>>
    /\ NoFile

\* for page_layout in extract_pages(pdf_path): the first page.
ReadFirstPage ==
    /\ fn = "none"
    /\ arg.pages # <<>>
    /\ ret' = read_page(read_init(arg.config), arg.pages[1])
    /\ fn' = "extract_pages"
    /\ UNCHANGED <<lines, arg, fileVars>>

\* ... and each later page.
ReadNextPage ==
    /\ fn = "extract_pages"
    /\ ret.total_pages < Len(arg.pages)
    /\ ret' = read_page(ret, arg.pages[ret.total_pages + 1])
    /\ UNCHANGED <<lines, arg, fn, fileVars>>

\* The rest of collect_text_lines, lines 193-210; lines is what it returns.
CollectReturn ==
    /\ \/ fn = "extract_pages" /\ ret.total_pages = Len(arg.pages)
       \/ fn = "none" /\ arg.pages = <<>>
    /\ LET st == IF fn = "none" THEN read_init(arg.config) ELSE ret IN
       /\ ret' = st
       /\ lines' = collect_output(st, min_repeating_of(arg.config, st.total_pages))
    /\ fn' = "collect_text_lines"
    /\ UNCHANGED <<arg, fileVars>>

NextCollect == ReadFirstPage \/ ReadNextPage \/ CollectReturn
SpecCollect == InitCollect /\ [][NextCollect]_vars

\* The entries of all pages in extraction order, and how often a text was
\* tagged with a region.
AllEntries(pages) == ConcatAll(pages)
RegionCount(pages, text, region) ==
    Cardinality({i \in 1..Len(AllEntries(pages)) : AllEntries(pages)[i] = <<text, region>>})

\* The threshold as the claim words it.
Threshold(config, page_count) ==
    IF config.min_repeating > 0 THEN config.min_repeating
    ELSE IF page_count \div 3 > 2 THEN page_count \div 3 ELSE 2

\* An entry the repetition filter drops: header-tagged with a header count,
\* or footer-tagged with a footer count, that reaches the threshold.
Repeating(pages, entry, threshold) ==
    /\ entry[2] \in {"header", "footer"}
    /\ RegionCount(pages, entry[1], entry[2]) >= threshold

Occurrences(ls, text) == Cardinality({i \in 1..Len(ls) : ls[i] = text})

\* C11: the threshold is min_repeating when positive and
\* max(2, floor(page_count / 3)) otherwise, taken after all pages are read;
\* every header-tagged occurrence of a text whose header count reaches it
\* and every footer-tagged occurrence of a text whose footer count reaches
\* it is absent from the output, on every page: a text occurs in the output
\* at most as often as it has occurrences that are not of that kind.
C11_RepeatingDropped ==
    fn = "collect_text_lines" =>
        \A text \in Range(lines) \cup {e[1] : e \in Range(AllEntries(ret.pages))} :
            text # <<>> =>
                Occurrences(lines, text) <=
                    Cardinality({i \in 1..Len(AllEntries(ret.pages)) :
                        /\ AllEntries(ret.pages)[i][1] = text
                        /\ ~Repeating(ret.pages, AllEntries(ret.pages)[i],
                                      Threshold(arg.config, Len(arg.pages)))})

\* Nine pages or more without a configured threshold: a footer text counted
\* 3 times or more, first on page 1, and a header text counted twice.
C11_Witness ==
    /\ fn = "collect_text_lines"
    /\ arg.config.min_repeating = 0
    /\ Len(arg.pages) >= 9
    /\ <<<<"F">>, "footer">> \in Range(ret.pages[1])
    /\ RegionCount(ret.pages, <<"F">>, "footer") >= 3
    /\ RegionCount(ret.pages, <<"F">>, "header") = 2
    /\ Occurrences(lines, <<"F">>) = 2

\* s is t without some of its elements.
RECURSIVE IsSubsequence(_, _)
IsSubsequence(s, t) ==
    IF s = <<>> THEN TRUE
    ELSE IF t = <<>> THEN FALSE
    ELSE IF Head(s) = Head(t) THEN IsSubsequence(Tail(s), Tail(t))
    ELSE IsSubsequence(s, Tail(t))

\* The texts of the entries that are retained, in extraction order.
Retained(pages, config, threshold) ==
    [i \in 1..Len(SelectSeq(AllEntries(pages), LAMBDA e :
                     ~Repeating(pages, e, threshold)
                     /\ ~should_skip_text(e[1], config.skip_patterns))) |->
        SelectSeq(AllEntries(pages), LAMBDA e :
                     ~Repeating(pages, e, threshold)
                     /\ ~should_skip_text(e[1], config.skip_patterns))[i][1]]

\* C12: every body-tagged line, and every header- or footer-tagged line
\* whose count in its own region is below the threshold, is in the output
\* unless it matches a skip pattern, in extraction order within and across
\* pages; the count of a text in one region has no effect on its lines of
\* another region.
C12_OthersRetained ==
    fn = "collect_text_lines" =>
        IsSubsequence(Retained(ret.pages, arg.config, Threshold(arg.config, Len(arg.pages))),
                      lines)

\* A text dropped as a header and kept as a footer and as a body line, next
\* to a line a skip pattern drops.
C12_Witness ==
    /\ fn = "collect_text_lines"
    /\ arg.config.skip_patterns # <<>>
    /\ RegionCount(ret.pages, <<"H">>, "header") >= Threshold(arg.config, Len(arg.pages))
    /\ RegionCount(ret.pages, <<"H">>, "footer") \in 1..(Threshold(arg.config, Len(arg.pages)) - 1)
    /\ Occurrences(lines, <<"H">>) = RegionCount(ret.pages, <<"H">>, "footer")
    /\ <<<<"7">>, "body">> \in Range(AllEntries(ret.pages))
    /\ <<"7">> \notin Range(lines)

(***************************************************************************)
(* tools/acrobat-pdf-markdown_cleanup.py: the passes of process_file.      *)
(***************************************************************************)
SENTENCE_END == {".", "!", "?", ":", ";", EMDASH, ENDASH}

\* should_merge_paragraphs without the test of how the previous line ends.
should_merge_any_ending(prev_line, next_line) ==
    /\ RStrip(prev_line) # <<>>
    /\ LStrip(next_line) # <<>>
    /\ LStrip(next_line)[1] \in Lower

should_merge_paragraphs(prev_line, next_line) ==
    LET prev == RStrip(prev_line)
        rest == LStrip(next_line)
    IN /\ prev # <<>>
       /\ rest # <<>>
       /\ rest[1] \in Lower
       /\ prev[Len(prev)] \notin SENTENCE_END
       /\ ~(\/ rest[1] \in {"#", "-", "*", ">"}
            \/ StartsWith(rest, BACKTICKS))

\* merge_split_paragraphs, the while loop from index i on (1-based).
RECURSIVE merge_from(_, _, _)
merge_from(lines0, i, merged) ==
    IF i > Len(lines0) THEN merged
    ELSE LET j == i + 1 + LeadCount(SubSeq(lines0, i + 1, Len(lines0)),
                                    LAMBDA l : Strip(l) = <<>>)
         IN IF /\ Strip(lines0[i]) = <<>>
               /\ merged # <<>>
               /\ j <= Len(lines0)
               /\ should_merge_paragraphs(merged[Len(merged)], lines0[j])
            THEN merge_from(lines0, j + 1,
                            [merged EXCEPT ![Len(merged)] =
                                RStrip(@) \o <<SP>> \o LStrip(lines0[j])])
            ELSE merge_from(lines0, i + 1, Append(merged, lines0[i]))

merge_split_paragraphs(text) == JoinLines(merge_from(SplitLines(text), 1, <<>>))

(***************************************************************************)
(* Calls of the Acrobat cleanup's merge_split_paragraphs on a text         *)
(* (SpecMerge): lines are the lines of the text.                           *)
(***************************************************************************)
MaxMergeLines == 4
MergeLines == {
    <<>>,
    <<SP>>,
    <<"T", "h", "e", SP, "c", "a", "t">>,
    <<"s", "a", "t", ".">>,
    <<SP, "o", "n", SP>>,
    <<"S", "a", "t">>,
    <<"-", SP, "x">>
}

InitMerge ==
    /\ lines \in SeqsUpTo(MergeLines, MaxMergeLines)
    /\ arg = <<>>
    /\ fn = "none"
    /\ ret = <<>>
    /\ NoFile

MergeSplitParagraphs ==
    /\ fn = "none"
    /\ ret' = merge_split_paragraphs(JoinLines(lines))
    /\ fn' = "merge_split_paragraphs"
    /\ UNCHANGED <<lines, arg, fileVars>>

NextMerge == MergeSplitParagraphs
SpecMerge == InitMerge /\ [][NextMerge]_vars

\* Line j of ls is a fragment: the first line that is not blank after one
\* or more blank lines that follow a line that is not blank.  PrevLine is
\* the number of that line.
PrevLine(ls, j) ==
    CHOOSE i \in 0..(j - 1) :
        /\ i = 0 \/ Strip(ls[i]) # <<>>
        /\ \A k \in (i + 1)..(j - 1) : Strip(ls[k]) = <<>>
IsFragment(ls, j) ==
    /\ Strip(ls[j]) # <<>>
    /\ PrevLine(ls, j) > 0
    /\ PrevLine(ls, j) < j - 1

\* The fragments that may be joined: the line before the blank lines does
\* not end in sentence-terminal punctuation and the fragment starts with a
\* lower-case letter.
MayJoin(ls) ==
    {j \in 1..Len(ls) :
        /\ IsFragment(ls, j)
        /\ RStrip(ls[PrevLine(ls, j)])[Len(RStrip(ls[PrevLine(ls, j)]))] \notin SENTENCE_END
        /\ LStrip(ls[j])[1] \in Lower}

\* Line h with the fragments of J joined onto it, one after the other.
RECURSIVE ChainText(_, _, _)
ChainText(ls, J, h) ==
    IF \E j \in J : PrevLine(ls, j) = h
    THEN RStrip(ls[h]) \o <<SP>>
         \o LStrip(ChainText(ls, J, CHOOSE j \in J : PrevLine(ls, j) = h))
    ELSE ls[h]

\* The text with the fragments of J joined and every other line unchanged:
\* a joined fragment and the blank lines before it are no lines of their
\* own.
JoinedAt(ls, J) ==
    [u \in 1..Len(SeqOfSet({k \in 1..Len(ls) :
                    ~\E j \in J : k \in (PrevLine(ls, j) + 1)..j})) |->
        ChainText(ls, J, SeqOfSet({k \in 1..Len(ls) :
                             ~\E j \in J : k \in (PrevLine(ls, j) + 1)..j})[u])]

\* C20: merge_split_paragraphs joins a fragment onto the line emitted before
\* it only if that line does not end in sentence-terminal punctuation and
\* the fragment starts with a lower-case letter; in every other case both
\* lines and the blank lines between them are emitted unchanged.
C20_MergeOnlyMidSentence ==
    fn = "merge_split_paragraphs" =>
        \E J \in SUBSET MayJoin(SplitLines(JoinLines(lines))) :
            ret = JoinLines(JoinedAt(SplitLines(JoinLines(lines)), J))

\* A fragment is joined, and a fragment that starts with a capital letter is
\* not.
C20_Witness ==
    /\ fn = "merge_split_paragraphs"
    /\ lines = <<<<"T", "h", "e", SP, "c", "a", "t">>, <<SP>>, <<SP, "o", "n", SP>>, <<"S", "a", "t">>>>
    /\ ret = JoinLines(<<<<"T", "h", "e", SP, "c", "a", "t", SP, "o", "n", SP>>, <<"S", "a", "t">>>>)

(***************************************************************************)
(* tools/acrobat-pdf-markdown_cleanup.py: the other passes of process_file. *)
(***************************************************************************)
\* A zero-width character (U+200B, U+200C, U+200D, U+2060).
ZWSP == "zwsp"

\* Whether p occurs in s.
HasSub(s, p) == \E i \in 1..(Len(s) - Len(p) + 1) : SubSeq(s, i, i + Len(p) - 1) = p

\* \s*\{[^{}]*\}
BRACE_BLOCK_RE == Cat(<<Star(ReS), Lit(<<"{">>), Star(NSet({"{", "}"})), Lit(<<"}">>)>>)
\* !\[([^\]]*)\]\(([^)]+)\)
INTERNAL_IMAGE_RE ==
    Cat(<<Lit(<<"!", "[">>), Grp("1", Star(NSet({"]"}))), Lit(<<"]", "(">>),
          Grp("2", Plus(NSet({")"}))), Lit(<<")">>)>>)
\* (?<!!)\[([^\]]+)\]\(([^)]+)\)
INTERNAL_LINK_RE ==
    Cat(<<NotBehind({"!"}), Lit(<<"[">>), Grp("1", Plus(NSet({"]"}))), Lit(<<"]", "(">>),
          Grp("2", Plus(NSet({")"}))), Lit(<<")">>)>>)
\* ^\s*\[[^\]]+\]:
ACROBAT_FOOTNOTE_DEF_RE ==
    Cat(<<BOL, Star(ReS), Lit(<<"[">>), Plus(NSet({"]"})), Lit(<<"]", ":">>)>>)
\* (?<!!)\[\s*\]
EMPTY_BRACKETS_RE == Cat(<<NotBehind({"!"}), Lit(<<"[">>), Star(ReS), Lit(<<"]">>)>>)
\* (?<!-)---(?!-)
TRIPLE_DASH_RE == Cat(<<NotBehind({"-"}), Lit(<<"-", "-", "-">>), NotAhead(Lit(<<"-">>))>>)

strip_brace_blocks(lines0) ==
    [i \in 1..Len(lines0) |-> RStrip(ReSub(BRACE_BLOCK_RE, <<>>, lines0[i]))]

remove_escaped_sequences(text) ==
    ReSub(Cat(<<Lit(<<"\\", "<">>), Star(ReS), LitI(<<"r", "e", "t", "u", "r", "n">>),
                Star(ReS), Lit(<<">">>)>>),                          \* \\<\s*return\s*>
          <<>>,
          ReSubGroup(Cat(<<Lit(<<"\\">>), Grp("1", CSet({"'", "\""}))>>), "1", text))

drop_stray_backslash_lines(text) ==
    JoinLines(SelectSeq(SplitLines(text), LAMBDA line : Strip(line) # <<"\\">>))

\* is_external(target) of strip_internal_links.
is_external(target) ==
    LET lower == ToLower(Strip(target)) IN
    /\ lower # <<>>
    /\ \/ StartsWith(lower, <<"h", "t", "t", "p", ":", "/", "/">>)
       \/ StartsWith(lower, <<"h", "t", "t", "p", "s", ":", "/", "/">>)
       \* \.html?(?:[#?].*)?$
       \/ ReSearch(Cat(<<Lit(<<".", "h", "t", "m">>), Opt(Lit(<<"l">>)),
                         Opt(Cat(<<CSet({"#", "?"}), Star(Dot)>>)), EOL>>), lower) # None

\* Whether a target is a local anchor or a bookmark.
is_local_target(target) ==
    StartsWith(ToLower(target), <<"#">>)
    \/ HasSub(ToLower(target), <<"b", "o", "o", "k", "m", "a", "r", "k">>)

image_repl(m) ==
    IF Strip(Group(m, "2")) = <<>> \/ is_local_target(Strip(Group(m, "2"))) THEN <<>>
    ELSE m.all

link_repl(m) == IF is_external(Group(m, "2")) THEN m.all ELSE Group(m, "1")

paren_repl(m) ==
    IF Strip(Group(m, "1")) = <<>> \/ is_local_target(Strip(Group(m, "1"))) THEN <<>>
    ELSE m.all

\* The loop over the lines of strip_internal_links, one line.
strip_links_line(line) ==
    IF ReMatches(ACROBAT_FOOTNOTE_DEF_RE, line) # None THEN line
    ELSE ReSubWith(Cat(<<Lit(<<"(">>), Grp("1", Plus(NSet({")"}))), Lit(<<")">>)>>),  \* \(([^)]+)\)
                   paren_repl,
                   \* (?<!!)\[([^\]]+)\]
                   ReSubGroup(Cat(<<NotBehind({"!"}), Lit(<<"[">>), Grp("1", Plus(NSet({"]"}))),
                                    Lit(<<"]">>)>>), "1", line))

strip_internal_links(text) ==
    JoinLines([i \in 1..Len(SplitLines(ReSubWith(INTERNAL_LINK_RE, link_repl,
                                 ReSubWith(INTERNAL_IMAGE_RE, image_repl, text)))) |->
        strip_links_line(SplitLines(ReSubWith(INTERNAL_LINK_RE, link_repl,
                                 ReSubWith(INTERNAL_IMAGE_RE, image_repl, text)))[i])])

normalize_image_alt_text(text) ==
    ReSubWith(INTERNAL_IMAGE_RE, LAMBDA m : <<"!", "[", "]", "(">> \o Group(m, "2") \o <<")">>, text)

remove_zero_width(text) == SelectSeq(text, LAMBDA c : c # ZWSP)

acrobat_remove_empty_brackets(text) == ReSub(EMPTY_BRACKETS_RE, <<>>, text)

collapse_spaces(text) ==
    JoinLines([i \in 1..Len(SplitLines(text)) |->
        ReSub(Rep(Lit(<<SP>>), 2, -1), <<SP>>, SplitLines(text)[i])])      \*  {2,}

\* The model's texts hold no carriage return.
acrobat_collapse_blank_lines(text) == ReSub(Rep(Lit(<<NL>>), 3, -1), <<NL, NL>>, text)

(***************************************************************************)
(* strip_internal_links on one line that holds a Markdown link.            *)
(***************************************************************************)
LinkLabels == {<<"a">>, <<"b", SP, "c">>}
LinkTargets == {<<"h", "t", "t", "p", ":", "/", "/", "x">>, <<"h", "t", "t", "p", "s", ":", "/", "/", "x", ".", "o", "r", "g", "/", "p">>, <<"p", ".", "h", "t", "m", "l">>, <<"p", ".", "h", "t", "m", "#", "s">>,
                <<"#", "b", "m">>, <<"x", ".", "p", "d", "f">>, <<"b", "o", "o", "k", "m", "a", "r", "k", "1">>}
LinkBefore == {<<>>, <<"s", "e", "e", SP>>, <<"x", ":", SP>>}
LinkAfter == {<<>>, <<".">>, <<SP, "a", "n", "d", SP, "[", "b", "]", "(", "#", "b", "m", ")">>}

MarkdownLink(label, target) == <<"[">> \o label \o <<"]", "(">> \o target \o <<")">>

InitLinks ==
    /\ arg \in [before : LinkBefore, label : LinkLabels, target : LinkTargets, after : LinkAfter]
    /\ lines = arg.before \o MarkdownLink(arg.label, arg.target) \o arg.after
    /\ fn = "none"
    /\ ret = <<>>
    /\ NoFile

StripInternalLinks ==
    /\ fn = "none"
    /\ ret' = strip_internal_links(lines)
    /\ fn' = "strip_internal_links"
    /\ UNCHANGED <<lines, arg, fileVars>>

NextLinks == StripInternalLinks
SpecLinks == InitLinks /\ [][NextLinks]_vars

\* A target that names an outbound link: an absolute http or https URL, or
\* an .htm or .html document, with or without a fragment or a query.
IsOutbound(target) ==
    \/ Len(target) >= 7 /\ SubSeq(target, 1, 7) = <<"h", "t", "t", "p", ":", "/", "/">>
    \/ Len(target) >= 8 /\ SubSeq(target, 1, 8) = <<"h", "t", "t", "p", "s", ":", "/", "/">>
    \/ \E i \in 1..Len(target) :
          /\ \/ i >= 4 /\ SubSeq(target, i - 3, i) = <<".", "h", "t", "m">>
             \/ i >= 5 /\ SubSeq(target, i - 4, i) = <<".", "h", "t", "m", "l">>
          /\ i = Len(target) \/ target[i + 1] \in {"#", "?"}

\* C13: strip_internal_links keeps every outbound link of its input: the
\* output still holds the link with its brackets, its label and its target.
C13_OutboundLinksKept ==
    (fn = "strip_internal_links" /\ IsOutbound(arg.target))
        => HasSub(ret, MarkdownLink(arg.label, arg.target))

(***************************************************************************)
(* tools/acrobat-pdf-markdown_cleanup.py: the front matter.  The file of   *)
(* the model lies in a directory with no "source" directory beside it, so  *)
(* the look-ups in the HTML files of that directory find nothing.          *)
(***************************************************************************)
\* ^\s*(?:by|author[:\s]+)(.+)$   (IGNORECASE)
AUTHOR_LINE_RE ==
    Cat(<<BOL, Star(ReS),
          Alt(<<LitI(<<"b", "y">>), Cat(<<LitI(<<"a", "u", "t", "h", "o", "r">>), Plus(CSet({":"} \cup WS))>>)>>),
          Grp("1", Plus(Dot)), EOL>>)
\* ^\s*(?:published\s+by|publisher[:\s]+)(.+)$   (IGNORECASE)
PUBLISHER_RE ==
    Cat(<<BOL, Star(ReS),
          Alt(<<Cat(<<LitI(<<"p", "u", "b", "l", "i", "s", "h", "e", "d">>), Plus(ReS), LitI(<<"b", "y">>)>>),
                Cat(<<LitI(<<"p", "u", "b", "l", "i", "s", "h", "e", "r">>), Plus(CSet({":"} \cup WS))>>)>>),
          Grp("1", Plus(Dot)), EOL>>)
\* \bISBN(?:-1[03])?[:\s]*([0-9Xx-]{10,17})
ISBN_RE ==
    Cat(<<WB, Lit(<<"I", "S", "B", "N">>), Opt(Cat(<<Lit(<<"-", "1">>), CSet({"0", "3"})>>)),
          Star(CSet({":"} \cup WS)), Grp("1", Rep(CSet(Digit \cup {"X", "x", "-"}), 10, 17))>>)
\* \b(?:ISBN|ISSN|ASIN|URN|UUID|LOC|LCCN)[:\s]*([A-Za-z0-9-]+)\b
GENERIC_ID_RE ==
    Cat(<<WB, Alt(<<Lit(<<"I", "S", "B", "N">>), Lit(<<"I", "S", "S", "N">>), Lit(<<"A", "S", "I", "N">>), Lit(<<"U", "R", "N">>), Lit(<<"U", "U", "I", "D">>),
                    Lit(<<"L", "O", "C">>), Lit(<<"L", "C", "C", "N">>)>>),
          Star(CSet({":"} \cup WS)), Grp("1", Plus(CSet(Lower \cup Upper \cup Digit \cup {"-"}))), WB>>)
\* (19|20)\d{2}
YEAR_RE == Cat(<<Grp("1", Alt(<<Lit(<<"1", "9">>), Lit(<<"2", "0">>)>>)), Rep(ReD, 2, 2)>>)
\* (19|20)\d{2}(?:[-/](0[1-9]|1[0-2])(?:[-/](0[1-9]|[12]\d|3[01]))?)
DATE_RE ==
    Cat(<<YEAR_RE, CSet({"-", "/"}),
          Grp("2", Alt(<<Cat(<<Lit(<<"0">>), CSet(Digit \ {"0"})>>),
                         Cat(<<Lit(<<"1">>), CSet({"0", "1", "2"})>>)>>)),
          Opt(Cat(<<CSet({"-", "/"}),
                    Grp("3", Alt(<<Cat(<<Lit(<<"0">>), CSet(Digit \ {"0"})>>),
                                   Cat(<<CSet({"1", "2"}), ReD>>),
                                   Cat(<<Lit(<<"3">>), CSet({"0", "1"})>>)>>))>>))>>)
\* <meta[^>]*name="author"[^>]*content="([^"]+)"   (IGNORECASE)
META_AUTHOR_RE ==
    Cat(<<LitI(<<"<", "m", "e", "t", "a">>), Star(NSet({">"})), LitI(<<"n", "a", "m", "e", "=", "\"", "a", "u", "t", "h", "o", "r", "\"">>), Star(NSet({">"})),
          LitI(<<"c", "o", "n", "t", "e", "n", "t", "=", "\"">>), Grp("1", Plus(NSet({"\""}))), Lit(<<"\"">>)>>)

\* str.strip('.')
IsDot(c) == c = "."
StripDots(s) == SubSeq(s, LeadCount(s, IsDot) + 1, Len(s) - TrailCount(s, IsDot))

\* The characters of an identifier in the order of their code points, and
\* sorted() of a set of identifiers.
CODE_POINTS ==
    <<SP, "-", ".", "0", "1", "2", "3", "4", "5", "6", "7", "8", "9",
      "A", "B", "C", "D", "E", "F", "G", "H", "I", "J", "K", "L", "M",
      "N", "O", "P", "Q", "R", "S", "T", "U", "V", "W", "X", "Y", "Z",
      "a", "b", "c", "d", "e", "f", "g", "h", "i", "j", "k", "l", "m",
      "n", "o", "p", "q", "r", "s", "t", "u", "v", "w", "x", "y", "z">>
Ord(c) == CHOOSE i \in 1..Len(CODE_POINTS) : CODE_POINTS[i] = c
StrLess(a, b) ==
    \E k \in 1..(Len(b)) :
        /\ k <= Len(a) + 1
        /\ SubSeq(a, 1, k - 1) = SubSeq(b, 1, k - 1)
        /\ k = Len(a) + 1 \/ Ord(a[k]) < Ord(b[k])
sorted(S) ==
    [k \in 1..Cardinality(S) |->
        CHOOSE x \in S : Cardinality({y \in S : StrLess(y, x)}) = k - 1]

\* The title's look-ahead, lines 75-82: the first line that is not blank
\* among the five after the title, unless it is a heading.
subtitle_after(lines0, idx) ==
    LET at == {j \in (idx + 1)..Min({idx + 5, Len(lines0)}) : Strip(lines0[j]) # <<>>} IN
    IF at = {} THEN None
    ELSE IF StartsWith(Strip(lines0[Min(at)]), <<"#">>) THEN None
    ELSE Some(Strip(lines0[Min(at)]))

fm_title(st, lines0, idx, stripped) ==
    IF st.title = None /\ StartsWith(stripped, <<"#", SP>>)
    THEN [st EXCEPT !.title = Some(Strip(SubSeq(stripped, 3, Len(stripped)))),
                    !.subtitle = subtitle_after(lines0, idx)]
    ELSE st

\* A key the line gives through the pattern re, unless the key is set.
fm_named(st, key, re, stripped) ==
    IF ReMatches(re, stripped) # None /\ key \notin DOMAIN st.metadata
    THEN [st EXCEPT !.metadata =
             DictPut(st.metadata, key, StripDots(Strip(Group(ReMatches(re, stripped)[1], "1"))))]
    ELSE st

fm_identifiers(st, stripped) ==
    [st EXCEPT !.identifiers =
        st.identifiers
        \cup {<<"I", "S", "B", "N", SP>> \o Strip(Group(m, "1")) : m \in Range(ReFindAll(ISBN_RE, stripped))}
        \cup {Strip(Group(m, "1")) : m \in Range(ReFindAll(GENERIC_ID_RE, stripped))}]

\* The date of a match of DATE_RE or YEAR_RE.
date_of(date_str) ==
    IF Len(date_str) = 4 THEN date_str \o <<"-", "0", "1", "-", "0", "1", "T", "0", "0", ":", "0", "0", ":", "0", "0", "+", "0", "0", ":", "0", "0">>
    ELSE IF Len(date_str) = 7 THEN date_str \o <<"-", "0", "1", "T", "0", "0", ":", "0", "0", ":", "0", "0", "+", "0", "0", ":", "0", "0">>
    ELSE date_str \o <<"T", "0", "0", ":", "0", "0", ":", "0", "0", "+", "0", "0", ":", "0", "0">>

fm_date(st, stripped) ==
    IF ReSearch(DATE_RE, stripped) # None /\ "date" \notin DOMAIN st.metadata
    THEN [st EXCEPT !.metadata =
             DictPut(st.metadata, "date", date_of(ReSearch(DATE_RE, stripped)[1].all))]
    ELSE st

\* One round of the loop over the first 200 lines.
fm_line(st, lines0, idx) ==
    IF Strip(lines0[idx]) = <<>> THEN st
    ELSE fm_date(fm_identifiers(fm_named(fm_named(fm_title(st, lines0, idx, Strip(lines0[idx])),
                     "author", AUTHOR_LINE_RE, Strip(lines0[idx])),
                     "publisher", PUBLISHER_RE, Strip(lines0[idx])),
                     Strip(lines0[idx])), Strip(lines0[idx]))

fm_scan(lines0) ==
    FoldLeft(LAMBDA st, idx : fm_line(st, lines0, idx),
             [metadata |-> EmptyDict, identifiers |-> {}, title |-> None, subtitle |-> None],
             [i \in 1..Min({200, Len(lines0)}) |-> i])

fm_with_identifiers(st) ==
    IF st.identifiers # {}
    THEN [st EXCEPT !.metadata = DictPut(st.metadata, "identifier", sorted(st.identifiers))]
    ELSE st

\* title.split(EMDASH)[0].split("-")[0].strip()
short_title(title) ==
    Strip(SubSeq(title, 1, Min({i \in 1..(Len(title) + 1) :
                                   i = Len(title) + 1 \/ title[i] \in {EMDASH, "-"}}) - 1))

fm_with_title(st) ==
    IF st.title = None THEN st.metadata
    ELSE Bind(DictPut(st.metadata, "title",
                  IF st.subtitle # None /\ ToLower(st.subtitle[1]) # <<"c", "o", "p", "y", "r", "i", "g", "h", "t">>
                  THEN st.title[1] \o <<":", SP>> \o st.subtitle[1]
                  ELSE st.title[1]), LAMBDA md :
         IF short_title(st.title[1]) # <<>>
         THEN DictPut(md, "title_short", short_title(st.title[1]))
         ELSE md)

fm_with_meta_author(metadata, text) ==
    IF "author" \notin DOMAIN metadata /\ ReSearch(META_AUTHOR_RE, text) # None
    THEN DictPut(metadata, "author", Strip(Group(ReSearch(META_AUTHOR_RE, text)[1], "1")))
    ELSE metadata

fm_with_year(metadata, text) ==
    IF "date" \notin DOMAIN metadata /\ ReSearch(YEAR_RE, text) # None
    THEN DictPut(metadata, "date", date_of(ReSearch(YEAR_RE, text)[1].all))
    ELSE metadata

extract_frontmatter_metadata(text) ==
    fm_with_year(fm_with_meta_author(
        fm_with_title(fm_with_identifiers(fm_scan(SplitLines(text)))), text), text)

\* The lines of the front matter but the last, from the metadata.
front_lines_of(metadata) ==
    <<<<"-", "-", "-">>>>
    \o (IF "author" \in DOMAIN metadata THEN <<<<"a", "u", "t", "h", "o", "r", ":", SP>> \o metadata["author"]>> ELSE <<>>)
    \o (IF "date" \in DOMAIN metadata
        THEN <<<<"d", "a", "t", "e", ":", SP>> \o <<"\"">> \o metadata["date"] \o <<"\"">> >> ELSE <<>>)
    \o (IF "identifier" \in DOMAIN metadata
        THEN <<<<"i", "d", "e", "n", "t", "i", "f", "i", "e", "r", ":">>>> \o [i \in 1..Len(metadata["identifier"]) |->
                                        <<SP, SP, "-", SP>> \o metadata["identifier"][i]]
        ELSE <<>>)
    \o <<<<"l", "a", "n", "g", "u", "a", "g", "e", ":", SP, "e", "n">>>>
    \o (IF "publisher" \in DOMAIN metadata
        THEN <<<<"p", "u", "b", "l", "i", "s", "h", "e", "r", ":", SP>> \o metadata["publisher"]>> ELSE <<>>)
    \o (IF "title" \in DOMAIN metadata
        THEN <<<<"t", "i", "t", "l", "e", ":", SP>> \o <<"\"">> \o metadata["title"] \o <<"\"">> >> ELSE <<>>)
    \o (IF "title_short" \in DOMAIN metadata
        THEN <<<<"t", "i", "t", "l", "e", "_", "s", "h", "o", "r", "t", ":", SP>> \o <<"\"">> \o metadata["title_short"] \o <<"\"">> >> ELSE <<>>)

IsNewline(c) == c = NL

insert_frontmatter(text) ==
    IF StartsWith(LStrip(text), <<"-", "-", "-", NL>>) THEN text
    ELSE IF DOMAIN extract_frontmatter_metadata(text) = {} THEN text
    ELSE JoinLines(Append(front_lines_of(extract_frontmatter_metadata(text)), <<"-", "-", "-", NL>>))
         \o SubSeq(text, LeadCount(text, IsNewline) + 1, Len(text))

(***************************************************************************)
(* tools/acrobat-pdf-markdown_cleanup.py: process_file.                    *)
(***************************************************************************)
\* The passes of process_file on the text, in the order of the calls.
ACROBAT_PASSES == <<"remove_escaped_sequences", "strip_internal_links",
                    "normalize_image_alt_text", "remove_zero_width", "remove_empty_brackets",
                    "drop_stray_backslash_lines", "collapse_spaces", "merge_split_paragraphs",
                    "collapse_blank_lines", "TRIPLE_DASH_RE", "insert_table_of_contents",
                    "insert_frontmatter">>
\* cleaned = pass(cleaned) for the pass of the given name.
acrobat_pass(text, pass) ==
    CASE pass = "remove_escaped_sequences" -> remove_escaped_sequences(text)
      [] pass = "strip_internal_links" -> strip_internal_links(text)
      [] pass = "normalize_image_alt_text" -> normalize_image_alt_text(text)
      [] pass = "remove_zero_width" -> remove_zero_width(text)
      [] pass = "remove_empty_brackets" -> acrobat_remove_empty_brackets(text)
      [] pass = "drop_stray_backslash_lines" -> drop_stray_backslash_lines(text)
      [] pass = "collapse_spaces" -> collapse_spaces(text)
      [] pass = "merge_split_paragraphs" -> merge_split_paragraphs(text)
      [] pass = "collapse_blank_lines" -> acrobat_collapse_blank_lines(text)
      [] pass = "TRIPLE_DASH_RE" -> ReSub(TRIPLE_DASH_RE, <<EMDASH>>, text)
      [] pass = "insert_table_of_contents" -> insert_table_of_contents(text)
      [] pass = "insert_frontmatter" -> insert_frontmatter(text)

\* if not cleaned.endswith("\n"): cleaned += "\n"
acrobat_end(text) == IF EndsWith(text, <<NL>>) THEN text ELSE text \o <<NL>>

\* The text process_file compares with the file's and writes.
acrobat_cleaned(original0) ==
    acrobat_end(FoldLeft(acrobat_pass, JoinLines(strip_brace_blocks(SplitLines(original0))),
                         ACROBAT_PASSES))

(***************************************************************************)
(* Runs of the Acrobat cleanup and of toc_rebuilder.py's main on a file.   *)
(***************************************************************************)
AcrobatLines == {
    <<>>,
    <<"#", SP, "T">>,
    <<"#", "#", SP, "a">>,
    <<"t", "e", "x", "t">>,
    <<"[", "a", "]", "(", "h", "t", "t", "p", ":", "/", "/", "x", ")">>,
    <<"b", "y", SP, "A", "l", ".">>,
    <<"-", "-", "-">>
}

\* The file holds up to MaxLines lines; its last line may lack the line break.
InitAcrobat ==
    /\ tool = "acrobat"
    /\ content \in {FileOf(ls) : ls \in SeqsUpTo(AcrobatLines, MaxLines)}
                   \cup {JoinLines(ls) : ls \in SeqsUpTo(AcrobatLines, MaxLines)}
    /\ original = <<>>
    /\ cleaned = <<>>
    /\ changed = FALSE
    /\ dry = FALSE
    /\ runs = 0
    /\ writes = 0
    /\ lines = <<>>
    /\ arg = <<>>
    /\ fn = "none"
    /\ ret = <<>>

AcrobatProcessFile ==
    /\ tool = "acrobat"
    /\ \E dry_run \in BOOLEAN : RunTool(acrobat_cleaned(content), dry_run)

NextAcrobat == AcrobatProcessFile
SpecAcrobat == InitAcrobat /\ [][NextAcrobat]_vars

\* toc_rebuilder.load_lines(path) on the text of the file.
load_lines(text) == [lines |-> SplitLines(text), has_trailing_newline |-> EndsWith(text, <<NL>>)]

\* write_lines that adds no line break.
write_lines_joined(lines0, has_trailing_newline) == JoinLines(lines0)

\* The text toc_rebuilder.write_lines(path, lines, has_trailing_newline) writes.
write_lines(lines0, has_trailing_newline) ==
    IF has_trailing_newline \/ ~EndsWith(JoinLines(lines0), <<NL>>)
    THEN JoinLines(lines0) \o <<NL>>
    ELSE JoinLines(lines0)

\* main of toc_rebuilder.py on a file that exists: cleaned is the text of
\* write_lines when main calls it, and the text of the file when it does not.
TocRebuilderMain ==
    /\ tool = "toc"
    /\ runs < MaxRuns
    /\ \E dry_run \in BOOLEAN :
         LET loaded == load_lines(content)
             rebuilt == rebuild_toc(loaded.lines)
             written == rebuilt.changed /\ ~dry_run
         IN /\ original' = content
            /\ changed' = rebuilt.changed
            /\ cleaned' = IF written
                          THEN write_lines(rebuilt.new_lines, loaded.has_trailing_newline)
                          ELSE content
            /\ content' = cleaned'
            /\ dry' = dry_run
            /\ runs' = runs + 1
            /\ writes' = writes + (IF written THEN 1 ELSE 0)
            /\ UNCHANGED <<tool, lines, arg, fn, ret>>

\* The four tools, each on a file of its own: up to MaxToolLines lines (for
\* the EPUB cleanup, blocks of lines), with or without the last line break.
MaxToolLines == 2
ToolFiles(LineLists) == {FileOf(ls) : ls \in LineLists} \cup {JoinLines(ls) : ls \in LineLists}
\* Five of the lines (of the blocks) of each tool's own specification.
ToolLines(t) ==
    CASE t = "pdf" -> {<<>>, <<"a">>, <<SP, SP, SP, SP, "c">>, <<"x", SP, SP, "y", SP>>, <<"#", SP, "h">>}
      [] t = "epub" -> {<<<<"#", SP, "T">>>>, <<<<"t", "e", "x", "t", SP, "[", "x", "]">>>>,
                        <<FM_DASHES, <<"t", "i", "t", "l", "e", ":", SP, "T">>, FM_DASHES>>,
                        <<<<>>>>, <<<<"-", SP, "i", "t", "e", "m">>>>}
      [] t = "acrobat" -> {<<>>, <<"#", SP, "T">>, <<"t", "e", "x", "t">>,
                           <<"b", "y", SP, "A", "l", ".">>, <<"-", "-", "-">>}
      [] t = "toc" -> {<<"#", SP, "a">>, <<"#", "#", SP, "a">>, <<"#", SP>>, BACKTICKS, TOC_HEADING}
ToolInputs(t) ==
    IF t = "epub" THEN ToolFiles({Flatten(bs) : bs \in SeqsUpTo(ToolLines(t), MaxToolLines)})
    ELSE ToolFiles(SeqsUpTo(ToolLines(t), MaxToolLines))
InitTools ==
    /\ tool \in {"pdf", "epub", "acrobat", "toc"}
    /\ content \in ToolInputs(tool)
    /\ arg \in IF tool = "epub" THEN StyleMaps ELSE {<<>>}
    /\ original = <<>>
    /\ cleaned = <<>>
    /\ changed = FALSE
    /\ dry = FALSE
    /\ runs = 0
    /\ writes = 0
    /\ lines = <<>>
    /\ fn = "none"
    /\ ret = <<>>
NextTools == PdfProcessFile \/ EpubProcessFile \/ AcrobatProcessFile \/ TocRebuilderMain
SpecTools == InitTools /\ [][NextTools]_vars

(***************************************************************************)
(* Claims about the Acrobat cleanup's process_file (SpecAcrobat).          *)
(***************************************************************************)
\* C2: the Acrobat cleanup is a fixed point on its own output: the passes of
\* process_file applied to a text that an earlier run wrote give that text
\* again, so the run reports no change.
C2_AcrobatFixedPoint ==
    (tool = "acrobat" /\ writes >= 1) => ~changed

\* C26: the text process_file produces holds no run of two or more blank
\* lines, that is no three line breaks in a row, also around a table of
\* contents or a front matter block the run inserts.
C26_NoBlankLineRuns ==
    (tool = "acrobat" /\ runs >= 1) => ~HasSub(cleaned, <<NL, NL, NL>>)

(***************************************************************************)
(* Claims about the texts the four tools produce (SpecTools).              *)
(***************************************************************************)
EndsWithNewline(text) == text # <<>> /\ text[Len(text)] = NL

\* C14: every text a tool produces ends with a line break, whatever the
\* file held, the empty file included: the text normalise_text returns, the
\* text clean_markdown_text returns, the text the Acrobat process_file
\* compares and writes, and the text toc_rebuilder's write_lines writes.
C14_TrailingNewline ==
    /\ (tool \in {"pdf", "epub", "acrobat"} /\ runs >= 1) => EndsWithNewline(cleaned)
    /\ (tool = "toc" /\ runs >= 1 /\ changed /\ ~dry) => EndsWithNewline(content)

\* toc_rebuilder.py has written a file whose last line lacked the line break.
C14_Witness ==
    /\ tool = "toc" /\ runs >= 1 /\ changed /\ ~dry
    /\ original # <<>> /\ ~EndsWithNewline(original)
    /\ EndsWithNewline(content)

(***************************************************************************)
(* Claims about merge_split_paragraphs at headings and list items          *)
(* (SpecMerge).                                                            *)
(***************************************************************************)
\* A heading line or a list-item line.
IsHeadingOrItem(line) ==
    \/ StartsWith(LStrip(line), <<"#">>)
    \/ LIST_MARKER_match(LStrip(line))

\* C21: merge_split_paragraphs joins nothing to a heading line or to a
\* list-item line and joins no such line to the paragraph before it: each
\* heading line and each list-item line of the input is a line of the output
\* as it was, as many times as the input holds it.
C21_NoMergeAtHeadingOrItem ==
    fn = "merge_split_paragraphs" =>
        \A i \in 1..Len(SplitLines(JoinLines(lines))) :
            IsHeadingOrItem(SplitLines(JoinLines(lines))[i]) =>
                Occurrences(SplitLines(ret), SplitLines(JoinLines(lines))[i])
                    >= Occurrences(SplitLines(JoinLines(lines)), SplitLines(JoinLines(lines))[i])

(***************************************************************************)
(* Calls of apply_span_classes and apply_pandoc_class_notation on one span *)
(* with the content "x".                                                   *)
(***************************************************************************)
MaxClasses == 2
ClassNames == {<<"a">>, <<"b">>, <<"u">>}
STYLES == {"bold", "italic", "sup", "sub"}
\* The style maps: the classes a and b, each unknown or with a set of styles;
\* no map knows the class u.
StyleMapsOf(Known) == UNION {[K -> SUBSET STYLES] : K \in SUBSET Known}

\* class names as the class attribute of a span and as a Pandoc attribute.
RECURSIVE JoinWords(_, _)
JoinWords(words, prefix) ==
    IF words = <<>> THEN <<>>
    ELSE IF Len(words) = 1 THEN prefix \o words[1]
    ELSE prefix \o words[1] \o <<SP>> \o JoinWords(Tail(words), prefix)
SpanOf(classes, inner) ==
    <<"<", "s", "p", "a", "n", SP, "c", "l", "a", "s", "s", "=", "\"">> \o JoinWords(classes, <<>>) \o <<"\"", ">">> \o inner \o <<"<", "/", "s", "p", "a", "n", ">">>
PandocSpanOf(classes, inner) ==
    <<"[">> \o inner \o <<"]", "{">> \o JoinWords(classes, <<".">>) \o <<"}">>

InitStyles ==
    /\ arg \in [classes : SeqsUpTo(ClassNames, MaxClasses) \ {<<>>},
                style_map : StyleMapsOf({<<"a">>, <<"b">>})]
    /\ lines = <<>>
    /\ fn = "none"
    /\ ret = <<>>
    /\ NoFile

ApplySpanClasses ==
    /\ fn = "none"
    /\ lines' = SpanOf(arg.classes, <<"x">>)
    /\ ret' = apply_span_classes(lines', arg.style_map)
    /\ fn' = "apply_span_classes"
    /\ UNCHANGED <<arg, fileVars>>

ApplyPandocClassNotation ==
    /\ fn = "none"
    /\ lines' = PandocSpanOf(arg.classes, <<"x">>)
    /\ ret' = apply_pandoc_class_notation(lines', arg.style_map)
    /\ fn' = "apply_pandoc_class_notation"
    /\ UNCHANGED <<arg, fileVars>>

NextStyles == ApplySpanClasses \/ ApplyPandocClassNotation
SpecStyles == InitStyles /\ [][NextStyles]_vars

\* The union of the styles of the classes the map knows.
StyleUnion(classes, style_map) ==
    {s \in STYLES : \E i \in 1..Len(classes) :
        classes[i] \in DOMAIN style_map /\ s \in style_map[classes[i]]}

\* The emphasis marker of a set of styles.
EmphasisOf(U) ==
    CASE "bold" \in U /\ "italic" \in U -> <<"*", "*", "*">>
      [] "bold" \in U /\ "italic" \notin U -> <<"*", "*">>
      [] "bold" \notin U /\ "italic" \in U -> <<"*">>
      [] "bold" \notin U /\ "italic" \notin U -> <<>>

\* The renderings of the content under a set of styles: the emphasised
\* content, inside a sup marker if sup is a style, inside a sub marker if sub
\* is a style (in either order when both are).
Renderings(inner, U) ==
    LET core == EmphasisOf(U) \o inner \o EmphasisOf(U) IN
    CASE "sup" \in U /\ "sub" \in U ->
             {Tagged(<<"s", "u", "b">>, Tagged(<<"s", "u", "p">>, core)), Tagged(<<"s", "u", "p">>, Tagged(<<"s", "u", "b">>, core))}
      [] "sup" \in U /\ "sub" \notin U -> {Tagged(<<"s", "u", "p">>, core)}
      [] "sup" \notin U /\ "sub" \in U -> {Tagged(<<"s", "u", "b">>, core)}
      [] "sup" \notin U /\ "sub" \notin U -> {core}

\* C22: a span with the classes C under the style map M is rendered from the
\* union U of M[c] over the classes of C that M knows, and from U alone: the
\* content in *** when U has bold and italic, in ** when bold only, in * when
\* italic only, then in a sup or sub marker when U has sup or sub; the bare
\* content when U is empty.  A class M does not know adds nothing.
C22_StyleResolution ==
    fn \in {"apply_span_classes", "apply_pandoc_class_notation"} =>
        /\ ret \in Renderings(<<"x">>, StyleUnion(arg.classes, arg.style_map))
        /\ StyleUnion(arg.classes, arg.style_map) = {} => ret = <<"x">>

\* Two classes, one bold and one italic and sup, beside no unknown class:
\* the content is in *** inside a sup marker.
C22_Witness ==
    /\ fn = "apply_span_classes"
    /\ arg.classes = <<<<"a">>, <<"b">>>>
    /\ DOMAIN arg.style_map = {<<"a">>, <<"b">>}
    /\ arg.style_map[<<"a">>] = {"bold"}
    /\ arg.style_map[<<"b">>] = {"italic", "sup"}
    /\ ret = <<"<", "s", "u", "p", ">", "*", "*", "*", "x", "*", "*", "*", "<", "/", "s", "u", "p", ">">>

(***************************************************************************)
(* Runs of collect_text_lines on pages of two lines that lie at the same   *)
(* place (SpecRegion); the steps are those of SpecCollect.                 *)
(***************************************************************************)
MaxRegionPages == 2
\* y1 and y0 of a line: at the top, on and beside the top margin, in the
\* middle, on and beside the bottom margin, at the bottom and over the whole
\* of a page of height 100, and at the top of a page of height 792.
LinePlaces == {<<95, 93>>, <<90, 88>>, <<89, 87>>, <<50, 48>>, <<13, 11>>, <<12, 10>>,
               <<5, 3>>, <<95, 5>>, <<790, 780>>}
RegionTexts == {<<"H">>, <<"F">>}
RegionPages ==
    {p \in {[height |-> h, lines |-> <<TextLine(t1 \o <<NL>>, pl[1], pl[2]),
                                       TextLine(t2 \o <<NL>>, pl[1], pl[2])>>] :
                h \in {None, Some(100)}, pl \in LinePlaces,
                t1 \in RegionTexts, t2 \in RegionTexts} :
        p.height = None \/ p.lines[1].y1 <= 100}
RegionConfigs ==
    {[margin_top |-> mt, margin_bottom |-> mb, min_repeating |-> m, skip_patterns |-> <<>>] :
        mt \in {0, 10}, mb \in {0, 10}, m \in {0, 3}}

InitRegion ==
    /\ arg \in {[pages |-> Copies(p, k), config |-> c] :
                   p \in RegionPages, k \in 1..MaxRegionPages, c \in RegionConfigs}
    /\ lines = <<>>
    /\ fn = "none"
    /\ ret = <<>>
    /\ NoFile

SpecRegion == InitRegion /\ [][NextCollect]_vars

\* The region of a line by its place alone.  A page without a height has
\* the height 792.
HeightOf(page_layout) == IF page_layout.height = None THEN 792 ELSE page_layout.height[1]
RegionOf(line, page_layout, config) ==
    CASE HeightOf(page_layout) - line.y1 <= config.margin_top -> "header"
      [] HeightOf(page_layout) - line.y1 > config.margin_top
         /\ line.y0 <= config.margin_bottom -> "footer"
      [] HeightOf(page_layout) - line.y1 > config.margin_top
         /\ line.y0 > config.margin_bottom -> "body"

\* C23: collect_text_lines tags a line by its place alone: header iff
\* page_height - top <= margin_top, otherwise footer iff bottom <=
\* margin_bottom, otherwise body; the two lines of a page, which lie at the
\* same place, have the same tag whatever their texts.
C23_RegionByPosition ==
    fn \in {"extract_pages", "collect_text_lines"} =>
        \A i \in 1..Len(ret.pages) :
            /\ Len(ret.pages[i]) = Len(arg.pages[i].lines)
            /\ \A j \in 1..Len(ret.pages[i]) :
                  /\ ret.pages[i][j][1] = Strip(arg.pages[i].lines[j].text)
                  /\ ret.pages[i][j][2] = RegionOf(arg.pages[i].lines[j], arg.pages[i], arg.config)
            /\ ret.pages[i][1][2] = ret.pages[i][2][2]

\* Two lines with different texts that reach into both margins are header
\* lines.
C23_Witness ==
    /\ fn = "extract_pages"
    /\ arg.config.margin_top = 10 /\ arg.config.margin_bottom = 10
    /\ arg.pages[1].height = Some(100)
    /\ arg.pages[1].lines[1].y1 = 95 /\ arg.pages[1].lines[1].y0 = 5
    /\ ret.pages[1] = <<<<<<"H">>, "header">>, <<<<"F">>, "header">>>>

\* The number of pages on which the text is tagged with the region.
PagesWith(pages, text, region) ==
    Cardinality({i \in 1..Len(pages) : <<text, region>> \in Range(pages[i])})

\* C24: the threshold counts pages: a header or footer text is dropped only
\* when it is in that region on at least threshold pages; a text that is
\* there on fewer pages is kept each time it occurs, also when it occurs
\* several times on one page.
C24_ThresholdCountsPages ==
    fn = "collect_text_lines" =>
        \A text \in RegionTexts :
            (\A region \in {"header", "footer"} :
                PagesWith(ret.pages, text, region) < Threshold(arg.config, Len(arg.pages)))
            => Occurrences(lines, text) =
                   Cardinality({i \in 1..Len(AllEntries(ret.pages)) :
                                   AllEntries(ret.pages)[i][1] = text})

(***************************************************************************)
(* Calls of extract_frontmatter_metadata on lines that hold date cues      *)
(* (SpecDates): arg is the list of the cues, lines the text.               *)
(***************************************************************************)
MaxDateLines == 2
\* A cue: a year, or a year and a month, or a year, a month and a day, with
\* "-" or "/" between them; NoCue is a line without a cue.
NoCue == [year |-> <<>>, month |-> <<>>, day |-> <<>>, sep |-> <<>>]
DateCues ==
    {[year |-> y, month |-> <<>>, day |-> <<>>, sep |-> <<>>] : y \in {<<"1", "9", "9", "9">>, <<"2", "0", "0", "1">>}}
    \cup {[year |-> y, month |-> <<"0", "2">>, day |-> d, sep |-> s] :
             y \in {<<"1", "9", "9", "9">>, <<"2", "0", "0", "1">>}, d \in {<<>>, <<"0", "3">>}, s \in {<<"-">>, <<"/">>}}
CueText(c) ==
    IF c = NoCue THEN <<"t", "e", "x", "t">>
    ELSE <<"i", "n", SP>> \o c.year
         \o (IF c.month # <<>> THEN c.sep \o c.month ELSE <<>>)
         \o (IF c.day # <<>> THEN c.sep \o c.day ELSE <<>>)

InitDates ==
    /\ arg \in SeqsUpTo(DateCues \cup {NoCue}, MaxDateLines)
    /\ lines = JoinLines([i \in 1..Len(arg) |-> CueText(arg[i])])
    /\ fn = "none"
    /\ ret = <<>>
    /\ NoFile

ExtractFrontmatterMetadata ==
    /\ fn = "none"
    /\ ret' = extract_frontmatter_metadata(lines)
    /\ fn' = "extract_frontmatter_metadata"
    /\ UNCHANGED <<lines, arg, fileVars>>

NextDates == ExtractFrontmatterMetadata
SpecDates == InitDates /\ [][NextDates]_vars

\* YYYY-MM-DDT00:00:00+00:00 of a cue, with 01 for a month or a day the cue
\* lacks.
IsoTimestamp(c) ==
    c.year \o <<"-">> \o (IF c.month # <<>> THEN c.month ELSE <<"0", "1">>)
           \o <<"-">> \o (IF c.day # <<>> THEN c.day ELSE <<"0", "1">>)
           \o <<"T", "0", "0", ":", "0", "0", ":", "0", "0", "+", "0", "0", ":", "0", "0">>

\* The first cue of the list.
FirstCue(cues) == cues[Min({i \in 1..Len(cues) : cues[i] # NoCue})]

\* C25: the date extract_frontmatter_metadata records is the ISO-8601
\* timestamp YYYY-MM-DDT00:00:00+00:00 of the first cue of the text in scan
\* order, with 01 for the month or the day the cue lacks, whether the cue is
\* a year, a year and a month or a year, a month and a day, and whether "-"
\* or "/" separates them; a later cue does not replace it.
C25_IsoDateOfFirstCue ==
    (fn = "extract_frontmatter_metadata" /\ "date" \in DOMAIN ret)
        => ret["date"] = IsoTimestamp(FirstCue(arg))


\* ---------------------------------------------------------------------
\* convert_IN_preprocess.py: process_directory and its subprocesses,
\* with filetype_inspect.py's rename of an inspected file.
\*
\* arg is the run's input (the IN/ directory and --dry-run), ret the state
\* of process_directory (the directory as it is now, the candidate list, the
\* index of the loop's item), fn the step the run is at, and lines the
\* subprocess commands run_command was called with, in order.
\* ---------------------------------------------------------------------
MaxFiles == 2
InNames == {<<"a", ".", "e", "p", "u", "b">>, <<"a", ".", "p", "d", "f">>, <<"a", ".", "t", "x", "t">>, <<"b", ".", "P", "D", "F">>, <<"b", ".", "e", "p", "u", "b">>}
\* The canonical extensions of TYPE_REGISTRY that infer_type finds here.
InTypes == {<<"e", "p", "u", "b">>, <<"p", "d", "f">>, <<"t", "x", "t">>}
\* A directory maps each file name to the extension its content is inferred
\* to have.
InDirs ==
    UNION {[S -> InTypes] : S \in {T \in SUBSET InNames : Cardinality(T) <= MaxFiles}}
ExitCodes == {0, 1}
SUPPORTED_SUFFIXES == {<<".", "e", "p", "u", "b">>, <<".", "p", "d", "f">>}

\* pathlib's Path.suffix and Path.with_suffix on a file name.
DotsOf(name) == {i \in 2..Len(name) : name[i] = "."}
suffix(name) ==
    IF DotsOf(name) = {} THEN <<>>
    ELSE SubSeq(name, CHOOSE i \in DotsOf(name) : \A j \in DotsOf(name) : j <= i, Len(name))
with_suffix(name, s) == SubSeq(name, 1, Len(name) - Len(suffix(name))) \o s

\* Path.rename.
rename(fs, path, target) ==
    [n \in (DOMAIN fs \ {path}) \cup {target} |-> IF n = target THEN fs[path] ELSE fs[n]]

\* filetype_inspect.maybe_rename: the directory after the call.
maybe_rename(fs, path, wanted_extension, info_only) ==
    LET current_ext == ToLower(SubSeq(suffix(path), 2, Len(suffix(path))))
        target == with_suffix(path, <<".">> \o wanted_extension)
    IN  IF wanted_extension = <<>> THEN fs
        ELSE IF current_ext = ToLower(wanted_extension) THEN fs
        ELSE IF target \in DOMAIN fs /\ target # path THEN fs
        ELSE IF info_only THEN fs
        ELSE rename(fs, path, target)

\* filetype_inspect.main on one path: a path that is no file is no target.
inspect_path(fs, path, info_only) ==
    IF path \notin DOMAIN fs THEN fs
    ELSE maybe_rename(fs, path, fs[path], info_only)

\* run_command: in a dry run the command is printed and 0 returned, else the
\* subprocess runs and its exit code is returned.
run_command(dry_run, returncode) ==
    IF dry_run THEN [executed |-> FALSE, result |-> 0]
    ELSE [executed |-> TRUE, result |-> returncode]

cleanup_follows_any_result(result, dry_run, markdown_found) ==
    ~dry_run /\ markdown_found

\* handle_epub and handle_pdf after the conversion: the cleanup command is
\* run unless the conversion failed, the run is a dry run or no Markdown
\* file is found.
cleanup_follows(result, dry_run, markdown_found) ==
    IF result # 0 THEN FALSE
    ELSE IF dry_run THEN FALSE
    ELSE markdown_found

Item == ret.candidates[ret.item]
Command(cmd, path, r) ==
    [cmd |-> cmd, path |-> path, executed |-> r.executed, result |-> r.result]

\* The loop of process_directory moves to its next item, or ends.
NextItem ==
    IF ret.item < Len(ret.candidates)
    THEN /\ ret' = [ret EXCEPT !.item = @ + 1]
         /\ fn' = "inspect_file"
    ELSE /\ ret' = ret
         /\ fn' = "done"

InitConvert ==
    /\ arg \in [dir : InDirs, dry_run : BOOLEAN]
    /\ ret = [fs |-> arg.dir, candidates |-> <<>>, item |-> 0]
    /\ lines = <<>>
    /\ fn = "none"
    /\ NoFile

\* process_directory up to its loop: the candidate list.
ProcessDirectory ==
    /\ fn = "none"
    /\ LET candidates ==
            sorted({n \in DOMAIN ret.fs : ToLower(suffix(n)) \in SUPPORTED_SUFFIXES})
       IN  /\ ret' = [ret EXCEPT !.candidates = candidates, !.item = 1]
           /\ fn' = IF candidates = <<>> THEN "done" ELSE "inspect_file"
    /\ UNCHANGED <<lines, arg, fileVars>>

\* inspect_file(item, dry_run=False), whose return value process_directory
\* drops, then the dispatch on item's suffix.
InspectFile ==
    /\ fn = "inspect_file"
    /\ \E returncode \in ExitCodes :
        LET r == run_command(FALSE, returncode)
        IN  lines' = Append(lines, Command("filetype_inspect", Item, [r EXCEPT !.result = None]))
    /\ ret' = [ret EXCEPT !.fs = inspect_path(ret.fs, Item, FALSE)]
    /\ fn' = IF ToLower(suffix(Item)) = <<".", "e", "p", "u", "b">> THEN "handle_epub" ELSE "handle_pdf"
    /\ UNCHANGED <<arg, fileVars>>

\* handle_epub up to the cleanup command.
HandleEpub ==
    /\ fn = "handle_epub"
    /\ \E returncode \in ExitCodes, markdown_found \in BOOLEAN :
        LET r == run_command(arg.dry_run, returncode)
        IN  /\ lines' = Append(lines, Command("epub_to_markdown", Item, r))
            /\ IF cleanup_follows(r.result, arg.dry_run, markdown_found)
               THEN fn' = "epub_markdown_cleanup" /\ ret' = ret
               ELSE NextItem
    /\ UNCHANGED <<arg, fileVars>>

\* handle_pdf up to the cleanup command.
HandlePdf ==
    /\ fn = "handle_pdf"
    /\ \E returncode \in ExitCodes, markdown_found \in BOOLEAN :
        LET r == run_command(arg.dry_run, returncode)
        IN  /\ lines' = Append(lines, Command("pdf_to_markdown", Item, r))
            /\ IF cleanup_follows(r.result, arg.dry_run, markdown_found)
               THEN fn' = "pdf_markdown_cleanup" /\ ret' = ret
               ELSE NextItem
    /\ UNCHANGED <<arg, fileVars>>

\* The cleanup command of handle_epub.
EpubCleanup ==
    /\ fn = "epub_markdown_cleanup"
    /\ \E returncode \in ExitCodes :
        lines' = Append(lines, Command("epub_markdown_cleanup", Item, run_command(arg.dry_run, returncode)))
    /\ NextItem
    /\ UNCHANGED <<arg, fileVars>>

\* The cleanup command of handle_pdf.
PdfCleanup ==
    /\ fn = "pdf_markdown_cleanup"
    /\ \E returncode \in ExitCodes :
        lines' = Append(lines, Command("pdf_markdown_cleanup", Item, run_command(arg.dry_run, returncode)))
    /\ NextItem
    /\ UNCHANGED <<arg, fileVars>>

NextConvert ==
    \/ ProcessDirectory
    \/ InspectFile
    \/ HandleEpub
    \/ HandlePdf
    \/ EpubCleanup
    \/ PdfCleanup
SpecConvert == InitConvert /\ [][NextConvert]_vars

Converters == {"epub_to_markdown", "pdf_to_markdown"}
Cleanups == {"epub_markdown_cleanup", "pdf_markdown_cleanup"}
ConverterOf(cleanup) ==
    IF cleanup = "epub_markdown_cleanup" THEN "epub_to_markdown" ELSE "pdf_to_markdown"
\* The commands of the log that are among cmds, in order.
CommandsAmong(cmds) == SelectSeq(lines, LAMBDA c : c.cmd \in cmds)
\* The supported files of the input directory, sorted.
SortedCandidates ==
    sorted({n \in DOMAIN arg.dir : ToLower(suffix(n)) \in SUPPORTED_SUFFIXES})

\* C27: the cleanup subprocess of a file is started only right after that
\* file's conversion subprocess was executed and returned 0; in a dry run no
\* conversion and no cleanup subprocess is executed; and whatever the
\* conversions return, the candidates are inspected and converted one after
\* the other in sorted order, all of them once the run is done.
C27_CleanupOnlyAfterConversion ==
    /\ \A k \in 1..Len(lines) :
        lines[k].cmd \in Cleanups =>
            /\ lines[k].executed
            /\ k > 1
            /\ lines[k - 1].cmd = ConverterOf(lines[k].cmd)
            /\ lines[k - 1].path = lines[k].path
            /\ lines[k - 1].executed
            /\ lines[k - 1].result = 0
    /\ arg.dry_run =>
        \A k \in 1..Len(lines) :
            /\ lines[k].cmd \notin Cleanups
            /\ lines[k].cmd \in Converters => ~lines[k].executed
    /\ LET inspected == CommandsAmong({"filetype_inspect"})
           converted == CommandsAmong(Converters)
       IN  /\ Len(inspected) <= Len(SortedCandidates)
           /\ \A k \in 1..Len(inspected) : inspected[k].path = SortedCandidates[k]
           /\ Len(converted) <= Len(inspected)
           /\ Len(inspected) <= Len(converted) + 1
           /\ \A k \in 1..Len(converted) : converted[k].path = SortedCandidates[k]
           /\ fn = "done" => Len(converted) = Len(SortedCandidates)

\* A run that is done, in which the first file's conversion failed and the
\* second file was converted and cleaned up.
C27_Witness ==
    /\ fn = "done"
    /\ ~arg.dry_run
    /\ Len(lines) = 5
    /\ lines[2].cmd \in Converters /\ lines[2].result # 0
    /\ lines[4].cmd \in Converters /\ lines[4].result = 0
    /\ lines[5].cmd \in Cleanups /\ lines[5].executed

\* C29: when process_directory hands its item to handle_epub or handle_pdf,
\* after the inspection of the item, the item names a file of the directory.
C29_DispatchedPathExists ==
    fn \in {"handle_epub", "handle_pdf"} => Item \in DOMAIN ret.fs


\* ---------------------------------------------------------------------
\* tui_launcher.py: ToolRunnerApp.action_run_tool.
\*
\* The coroutine runs on the asyncio event loop: it is atomic between two
\* awaits, and run requests, the tool's output and the tool's exit come in
\* any order. arg is the selection, ret the state of the app (the
\* _is_running flag, the subprocesses started so far and the one the running
\* coroutine holds), fn the await the coroutine is at, lines the TextLog.
\* ---------------------------------------------------------------------
MaxRequests == 3
MaxOutput == 2
\* The subprocesses that exist: process.returncode is None until the
\* subprocess has ended.
Alive(processes) == {p \in 1..Len(processes) : processes[p] = None}

\* The finally clause (line 305) ends the coroutine.
Finally(app) == [app EXCEPT !._is_running = FALSE, !.process = 0]

InitTui ==
    /\ arg \in [selected_tool : BOOLEAN, selected_path : BOOLEAN]
    /\ ret = [_is_running |-> FALSE, processes |-> <<>>, process |-> 0, requests |-> 0]
    /\ lines = <<>>
    /\ fn = "idle"
    /\ NoFile

\* A run request: action_run_tool up to its first await (lines 269-283).
\* The request comes while no coroutine runs, or while one is suspended.
ActionRunTool ==
    /\ ret.requests < MaxRequests
    /\ IF ~arg.selected_tool \/ ~arg.selected_path
       THEN /\ lines' = <<"Select a file and tool before running">>
            /\ ret' = [ret EXCEPT !.requests = @ + 1]
            /\ fn' = fn
       ELSE IF ret._is_running
       THEN /\ lines' = <<"A tool is already running; please wait...">>
            /\ ret' = [ret EXCEPT !.requests = @ + 1]
            /\ fn' = fn
       ELSE /\ lines' = <<"Running">>
            /\ ret' = [ret EXCEPT !.requests = @ + 1, !._is_running = TRUE]
            /\ fn' = "create_subprocess_exec"
    /\ UNCHANGED <<arg, fileVars>>

\* await asyncio.create_subprocess_exec (lines 284-288): the subprocess
\* starts, or the call raises and the finally clause runs.
CreateSubprocess ==
    /\ fn = "create_subprocess_exec"
    /\ \/ /\ ret' = [ret EXCEPT !.processes = Append(@, None),
                                !.process = Len(ret.processes) + 1]
          /\ fn' = "readline"
       \/ /\ ret' = Finally(ret)
          /\ fn' = "idle"
    /\ UNCHANGED <<lines, arg, fileVars>>

\* await process.stdout.readline() gives a line (lines 291-294), which is
\* decoded and written, unless reading or decoding it raises.
ReadLine ==
    /\ fn = "readline"
    /\ ret.processes[ret.process] = None
    /\ Len(lines) <= MaxOutput
    /\ \/ /\ lines' = Append(lines, "line")
          /\ UNCHANGED <<ret, fn>>
       \/ /\ ret' = Finally(ret)
          /\ fn' = "idle"
          /\ lines' = lines
    /\ UNCHANGED <<arg, fileVars>>

\* readline() gives b"" once the subprocess has ended and closed its output.
ReadEof ==
    /\ fn = "readline"
    /\ ret.processes[ret.process] # None
    /\ fn' = "wait"
    /\ UNCHANGED <<lines, arg, ret, fileVars>>

\* await process.wait() and the report (lines 295-303).
Wait ==
    /\ fn = "wait"
    /\ ret.processes[ret.process] # None
    /\ IF ret.processes[ret.process] = Some(0)
       THEN /\ lines' = Append(lines, "Completed successfully")
            /\ ret' = ret
            /\ fn' = "action_refresh"
       ELSE /\ lines' = Append(lines, "Failed with exit code")
            /\ ret' = Finally(ret)
            /\ fn' = "idle"
    /\ UNCHANGED <<arg, fileVars>>

\* await self.action_refresh() (line 301) returns or raises.
ActionRefresh ==
    /\ fn = "action_refresh"
    /\ ret' = Finally(ret)
    /\ fn' = "idle"
    /\ UNCHANGED <<lines, arg, fileVars>>

\* A subprocess ends with exit code 0 or 1.
ProcessExit ==
    /\ \E p \in Alive(ret.processes), returncode \in ExitCodes :
        ret' = [ret EXCEPT !.processes[p] = Some(returncode)]
    /\ UNCHANGED <<lines, arg, fn, fileVars>>

NextTui ==
    \/ ActionRunTool
    \/ CreateSubprocess
    \/ ReadLine
    \/ ReadEof
    \/ Wait
    \/ ActionRefresh
    \/ ProcessExit
SpecTui == InitTui /\ [][NextTui]_vars

\* C28: at most one subprocess started by action_run_tool exists at any
\* time, and _is_running is true exactly while a run is in progress, that
\* is, while the coroutine of an accepted request has not ended or a
\* subprocess it started still exists; once the run has ended the flag is
\* false.
C28_AtMostOneRun ==
    /\ Cardinality(Alive(ret.processes)) <= 1
    /\ ret._is_running <=> (fn # "idle" \/ Alive(ret.processes) # {})
    /\ fn = "idle" => ~ret._is_running


\* ---------------------------------------------------------------------
\* publication_cleanup.py: main and the three steps that touch the disk.
\*
\* A path is the sequence of its parts below "/", and a file system maps
\* each path that exists to "dir" or "file". arg is the run's input (the
\* file system, the publication directory, the metadata read from its
\* primary Markdown file, --dry-run) and ret the run's outcome (the file
\* system after the run and the exit code).
\* ---------------------------------------------------------------------
IsUnder(p, d) == Len(p) >= Len(d) /\ SubSeq(p, 1, Len(d)) = d
exists(fs, p) == p \in DOMAIN fs
is_dir(fs, p) == p \in DOMAIN fs /\ fs[p] = "dir"
iterdir(fs, d) == {p \in DOMAIN fs : Len(p) = Len(d) + 1 /\ IsUnder(p, d)}
PathName(p) == p[Len(p)]
Parent(p) == SubSeq(p, 1, Len(p) - 1)

\* Path.rename and shutil.move to a target that does not exist: the file or
\* the directory with all it holds gets the new path.
move(fs, src, dst) ==
    LET NewPath(p) == IF IsUnder(p, src) THEN dst \o SubSeq(p, Len(src) + 1, Len(p)) ELSE p
    IN  [q \in {NewPath(p) : p \in DOMAIN fs} |-> fs[CHOOSE p \in DOMAIN fs : NewPath(p) = q]]
rmtree(fs, d) == [p \in {q \in DOMAIN fs : ~IsUnder(q, d)} |-> fs[p]]
mkdir(fs, d) == [p \in DOMAIN fs \cup {d} |-> IF p = d THEN "dir" ELSE fs[p]]

\* The loop over the items of child (lines 34-49).
RECURSIVE flatten_items(_, _, _, _, _)
flatten_items(fs, entry, child, items, dry_run) ==
    IF items = {} THEN fs
    ELSE LET item == CHOOSE x \in items : TRUE
             target == Append(entry, PathName(item))
             inner_target == Append(child, PathName(item))
             moved ==
                IF dry_run THEN fs
                ELSE IF ToLower(PathName(child)) = <<"i", "m", "a", "g", "e", "s">>
                THEN IF exists(fs, target) THEN fs ELSE move(fs, item, target)
                ELSE IF exists(fs, inner_target) THEN fs ELSE move(fs, item, inner_target)
         IN  flatten_items(moved, entry, child, items \ {item}, dry_run)

RECURSIVE flatten_entries(_, _, _)
\* The body of the loop over the entries of base_dir (lines 27-52).
flatten_entry(fs, entry, dry_run) ==
    IF ~is_dir(fs, entry) THEN fs
    ELSE LET inner == flatten_entries(fs, iterdir(fs, entry), dry_run)
             child == Append(entry, PathName(entry))
         IN  IF ~is_dir(inner, child) THEN inner
             ELSE LET flat == flatten_items(inner, entry, child, iterdir(inner, child), dry_run)
                  IN  IF iterdir(flat, child) = {} /\ ~dry_run
                      THEN rmtree(flat, child)
                      ELSE flat
flatten_entries(fs, entries, dry_run) ==
    IF entries = {} THEN fs
    ELSE LET entry == CHOOSE x \in entries : TRUE
         IN  flatten_entries(flatten_entry(fs, entry, dry_run), entries \ {entry}, dry_run)
flatten_redundant_asset_dirs(fs, base_dir, dry_run) ==
    flatten_entries(fs, iterdir(fs, base_dir), dry_run)

\* build_basename and build_filename.
IsForbiddenInName(c) == c \in {"\\", "/", ":", "*", "?", "\"", "<", ">", "|"}
build_basename(meta) ==
    LET tail == (IF meta.publisher # <<>> THEN <<meta.publisher>> ELSE <<>>)
                \o (IF meta.year # <<>> THEN <<meta.year>> ELSE <<>>)
        parts == <<meta.title_short, <<"b", "y">>, meta.author>>
                 \o (IF tail # <<>> THEN <<<<"-", SP>> \o JoinWords(tail, <<>>)>> ELSE <<>>)
        name == JoinWords(SelectSeq(parts, LAMBDA part : part # <<>>), <<>>)
    IN  Strip(SelectSeq(name, LAMBDA c : ~IsForbiddenInName(c)))
build_filename(meta, extension) ==
    IF meta.isbn # <<>>
    THEN build_basename(meta) \o <<SP, "I", "S", "B", "N", SP>> \o meta.isbn \o <<".">> \o extension
    ELSE build_basename(meta) \o <<".">> \o extension

\* The loop over the exports (lines 199-213); error is set where the code
\* raises FileExistsError.
RECURSIVE rename_exports(_, _, _, _)
rename_exports(fs, exports, meta, dry_run) ==
    IF exports = <<>> THEN [fs |-> fs, error |-> FALSE]
    ELSE LET path == Head(exports)
             rest == Tail(exports)
             ext == suffix(PathName(path))
             new_path == Append(Parent(path), build_filename(meta, SubSeq(ext, 2, Len(ext))))
         IN  IF is_dir(fs, path) THEN rename_exports(fs, rest, meta, dry_run)
             ELSE IF ToLower(ext) \notin {<<".", "m", "d">>, <<".", "h", "t", "m", "l">>, <<".", "e", "p", "u", "b">>}
             THEN rename_exports(fs, rest, meta, dry_run)
             ELSE IF new_path = path THEN rename_exports(fs, rest, meta, dry_run)
             ELSE IF exists(fs, new_path) THEN [fs |-> fs, error |-> TRUE]
             ELSE IF dry_run THEN rename_exports(fs, rest, meta, dry_run)
             ELSE rename_exports(move(fs, path, new_path), rest, meta, dry_run)

\* publication_dir.glob("*"): the entries of the directory in the order the
\* operating system lists them; order gives the order of the files, and the
\* directories follow.
RECURSIVE DirsIn(_, _)
DirsIn(fs, entries) ==
    IF entries = {} THEN <<>>
    ELSE LET entry == CHOOSE x \in entries : TRUE
         IN  (IF is_dir(fs, entry) THEN <<entry>> ELSE <<>>) \o DirsIn(fs, entries \ {entry})
glob_all(fs, dir, order) ==
    [k \in 1..Len(order) |-> Append(dir, order[k])] \o DirsIn(fs, iterdir(fs, dir))

rename_publication_artifacts(fs, publication_dir, meta, dry_run, order) ==
    LET new_dir_name == build_basename(meta)
        target_dir == Append(Parent(publication_dir), new_dir_name)
    IN  IF new_dir_name = <<>> THEN [fs |-> fs, publication_dir |-> publication_dir, error |-> TRUE]
        ELSE IF PathName(publication_dir) # new_dir_name /\ exists(fs, target_dir)
        THEN [fs |-> fs, publication_dir |-> publication_dir, error |-> TRUE]
        ELSE IF PathName(publication_dir) # new_dir_name /\ ~dry_run
        THEN LET renamed == move(fs, publication_dir, target_dir)
                 done == rename_exports(renamed, glob_all(renamed, target_dir, order), meta, dry_run)
             IN  [fs |-> done.fs, publication_dir |-> target_dir, error |-> done.error]
        ELSE LET done == rename_exports(fs, glob_all(fs, publication_dir, order), meta, dry_run)
             IN  [fs |-> done.fs, publication_dir |-> publication_dir, error |-> done.error]

\* The OUT directory that belongs to a publication directory (lines 221-228).
out_root_of(resolved_dir) ==
    LET ins == {idx \in 1..Len(resolved_dir) : ToLower(resolved_dir[idx]) = <<"i", "n">>}
    IN  IF ins # {}
        THEN Append(SubSeq(resolved_dir, 1, (CHOOSE i \in ins : \A j \in ins : j <= i) - 1), <<"O", "U", "T">>)
        ELSE Append(Parent(Parent(resolved_dir)), <<"O", "U", "T">>)

ensure_out_root_always(fs, out_root, dry_run) ==
    IF ~exists(fs, out_root) THEN mkdir(fs, out_root) ELSE fs

\* Lines 230-231.
ensure_out_root(fs, out_root, dry_run) ==
    IF ~exists(fs, out_root) /\ ~dry_run THEN mkdir(fs, out_root) ELSE fs

move_to_out_directory(fs, publication_dir, dry_run) ==
    LET out_root == out_root_of(publication_dir)
        made == ensure_out_root(fs, out_root, dry_run)
        destination == Append(out_root, PathName(publication_dir))
    IN  IF exists(made, destination) THEN [fs |-> made, error |-> TRUE]
        ELSE IF dry_run THEN [fs |-> made, error |-> FALSE]
        ELSE [fs |-> rmtree(move(made, publication_dir, destination), Append(destination, <<"s", "o", "u", "r", "c", "e">>)),
              error |-> FALSE]

\* main: the file system after the run and the exit code.
publication_cleanup_main(fs, publication_dir, meta, dry_run, order) ==
    IF ~is_dir(fs, publication_dir) THEN [fs |-> fs, code |-> 1]
    ELSE IF {p \in iterdir(fs, publication_dir) : suffix(PathName(p)) = <<".", "m", "d">>} = {}
    THEN [fs |-> fs, code |-> 1]
    ELSE IF meta = None THEN [fs |-> fs, code |-> 2]
    ELSE LET flat == flatten_redundant_asset_dirs(fs, publication_dir, dry_run)
             renamed == rename_publication_artifacts(flat, publication_dir, meta[1], dry_run, order)
             moved == move_to_out_directory(renamed.fs, renamed.publication_dir, dry_run)
         IN  IF renamed.error THEN [fs |-> renamed.fs, code |-> 3]
             ELSE IF moved.error THEN [fs |-> moved.fs, code |-> 3]
             ELSE [fs |-> moved.fs, code |-> 0]

\* The layouts of the model: a publication directory pub or "T by A" below
\* r/IN or r/w, with any of the entries below.
PubParents == {<<<<"r">>, <<"I", "N">>>>, <<<<"r">>, <<"w">>>>}
PubNames == {<<"p", "u", "b">>, <<"T", SP, "b", "y", SP, "A">>}
PubMetas ==
    {[title_short |-> <<"T">>, author |-> <<"A">>, publisher |-> <<>>, year |-> <<>>, isbn |-> <<>>],
     [title_short |-> <<"T", ":">>, author |-> <<"A">>, publisher |-> <<"P">>, year |-> <<>>, isbn |-> <<"1", "2">>]}
Dirs(paths) == [p \in paths |-> "dir"]
Files(paths) == [p \in paths |-> "file"]
LayoutParts(parent, pub) ==
    LET images == Append(pub, <<"i", "m", "a", "g", "e", "s">>)
        assets == Append(pub, <<"a", "s", "s", "e", "t", "s">>)
        out == <<<<"r">>, <<"O", "U", "T">>>>
    IN  {Files({Append(pub, <<"b", ".", "m", "d">>)}),
         Files({Append(pub, <<"T", SP, "b", "y", SP, "A", ".", "m", "d">>)}),
         Files({Append(pub, <<"b", ".", "h", "t", "m", "l">>)}),
         Dirs({images, Append(images, <<"i", "m", "a", "g", "e", "s">>)}),
         Dirs({images, Append(images, <<"i", "m", "a", "g", "e", "s">>)}) @@ Files({Append(Append(images, <<"i", "m", "a", "g", "e", "s">>), <<"x", ".", "p", "n", "g">>)}),
         Dirs({images}) @@ Files({Append(images, <<"x", ".", "p", "n", "g">>)}),
         Dirs({assets, Append(assets, <<"a", "s", "s", "e", "t", "s">>)}) @@ Files({Append(Append(assets, <<"a", "s", "s", "e", "t", "s">>), <<"y">>)}),
         Dirs({Append(pub, <<"s", "o", "u", "r", "c", "e">>)}),
         Dirs({Append(parent, <<"T", SP, "b", "y", SP, "A">>)}),
         Dirs({out}),
         Dirs({out, Append(out, PathName(pub))}),
         Dirs({out, Append(out, <<"T", SP, "b", "y", SP, "A">>)})}
RECURSIVE MergeParts(_)
MergeParts(parts) ==
    IF parts = {} THEN <<>>
    ELSE LET part == CHOOSE x \in parts : TRUE IN part @@ MergeParts(parts \ {part})
Layouts(parent, pub) ==
    {Dirs({<<<<"r">>>>, parent, pub}) @@ MergeParts(parts) : parts \in SUBSET LayoutParts(parent, pub)}

InitCleanup ==
    /\ \E parent \in PubParents, name \in PubNames :
        /\ arg \in [fs : Layouts(parent, Append(parent, name)),
                    publication_dir : {Append(parent, name)},
                    meta : {None} \cup {Some(m) : m \in PubMetas},
                    dry_run : BOOLEAN]
    /\ ret = [fs |-> arg.fs, code |-> 0]
    /\ lines = <<>>
    /\ fn = "none"
    /\ NoFile

\* The orders in which a directory's files can be listed.
FileOrders(fs, dir) ==
    LET names == {PathName(p) : p \in {q \in iterdir(fs, dir) : ~is_dir(fs, q)}}
    IN  {order \in [1..Cardinality(names) -> names] : Range(order) = names}

PublicationCleanupMain ==
    /\ fn = "none"
    /\ \E order \in FileOrders(arg.fs, arg.publication_dir) :
        ret' = publication_cleanup_main(arg.fs, arg.publication_dir, arg.meta, arg.dry_run, order)
    /\ fn' = "main"
    /\ UNCHANGED <<lines, arg, fileVars>>

NextCleanup == PublicationCleanupMain
SpecCleanup == InitCleanup /\ [][NextCleanup]_vars

\* C30: a --dry-run run of publication_cleanup leaves the file system as it
\* was: nothing is moved, renamed, created or removed, whatever the layout
\* and whatever the exit code, 3 included.
C30_DryRunChangesNothing ==
    (fn = "main" /\ arg.dry_run) => ret.fs = arg.fs

\* A dry run that ends with exit code 3 on a layout with a nested images
\* directory to flatten and no OUT directory.
C30_Witness ==
    /\ fn = "main"
    /\ arg.dry_run
    /\ ret.code = 3
    /\ ~exists(arg.fs, <<<<"r">>, <<"O", "U", "T">>>>)
    /\ \E p \in DOMAIN arg.fs : Len(p) = 6 /\ PathName(p) = <<"x", ".", "p", "n", "g">>

====
